---- MODULE Spec2Model ----
(***************************************************************************)
(* A model of elastic-explorer's credential vault (key file, password      *)
(* cipher, endpoint table, schema migration) and of its version-adaptive   *)
(* Elasticsearch client.                                                   *)
(*                                                                         *)
(* Text (file contents, base64 payloads) and binary data are sequences of  *)
(* byte values 0..255; a Rust Option is a sequence of length 0 or 1; a     *)
(* Rust Result is a record [ok, val, err] whose val wraps the value.       *)
(***************************************************************************)
EXTENDS Integers, Sequences, FiniteSets, TLC

VARIABLES
    keyFile,        \* db.key on disk: None or Some(bytes of the file)
    keyMode,        \* permission bits of db.key: "none", "default" or "0600"
    keyCalls,       \* history of load_or_create_key calls, oldest first
    encryption_key, \* Database.encryption_key: None until Database::new loaded it
    encCalls,       \* history of encrypt_password calls, oldest first
    decCall,        \* the latest decrypt_password call: None or Some([input, ret])
    columns,        \* the password columns the endpoints table has
    endpoints,      \* the endpoints table: id -> row
    revealed,       \* the latest get_endpoint_password call: None or Some(call)
    legacyRows,     \* the endpoints table as the latest run of migration 004 found it
    startup,        \* the latest Database::new call: None or Some(call)
    client,         \* the EsClient of the request in progress: None or Some(fields)
    apiCall,        \* the latest call of a method of the client: None or Some(call)
    disk,           \* the legacy and the current application directory
    boot,           \* the position of main and what its steps returned
    vaultLog,       \* the latest create_endpoint or update_endpoint call, and the
                    \* password last given for each row
    procs,          \* the processes inside load_or_create_key: pid -> position
    history,        \* the console_history table: a sequence of rows
    savers,         \* the save_console_history calls in flight: their positions
    cookie,         \* active_endpoint_id of the browser: None or Some(id)
    deleted,        \* the ids of the rows delete_endpoint removed
    lookup,         \* the latest get_active_endpoint or select_endpoint call
    matchCall       \* the latest matches_pattern call: None or Some(call)

keyVars == <<keyFile, keyMode, keyCalls>>
cipherVars == <<encryption_key, encCalls, decCall>>
tableVars == <<columns, endpoints, revealed, legacyRows, startup>>
clientVars == <<client, apiCall>>
hostVars == <<disk, boot>>
raceVars == <<procs>>
consoleVars == <<history, savers>>
sessionVars == <<cookie, deleted, lookup>>
shardVars == <<matchCall>>
sideVars == <<vaultLog, raceVars, consoleVars, sessionVars, shardVars>>

vars == <<keyFile, keyMode, keyCalls, encryption_key, encCalls, decCall,
          columns, endpoints, revealed, legacyRows, startup, client, apiCall,
          disk, boot, vaultLog, procs, history, savers, cookie, deleted,
          lookup, matchCall>>

----------------------------------------------------------------------------
(* Bounds of the model *)

\* how many distinct 32-byte keys the entropy source can deliver
NumKeys == 3
\* an existing key file decodes to KeyLen - MaxLenDelta .. KeyLen + MaxLenDelta bytes
MaxLenDelta == 1
\* how many load_or_create_key calls a behaviour records
MaxKeyCalls == 3
\* how many distinct 12-byte nonces the entropy source can deliver
NumNonces == 2
\* how many encrypt_password calls a behaviour records
MaxEncCalls == 2
\* how many rows the endpoints table can hold
MaxEndpoints == 1
\* the remote reports major versions 5 .. MaxMajor
MaxMajor == 8
\* the remote reports patch levels 0 .. MaxPatch
MaxPatch == 1
MaxStarts == 2
MaxServed == 1
\* How many requests of the console are followed
MaxSaves == 3
\* How many processes are started on one application directory
NumProcs == 2
\* Index names and patterns of up to MaxNameLen characters
MaxNameLen == 3

----------------------------------------------------------------------------
(* Option and Result *)

None == <<>>
Some(v) == <<v>>
IsSome(o) == Len(o) = 1
Unwrap(o) == o[1]

Ok(v) == [ok |-> TRUE, val |-> <<v>>, err |-> ""]
Err(m) == [ok |-> FALSE, val |-> <<>>, err |-> m]

----------------------------------------------------------------------------
(* Bytes and text *)

Byte == 0 .. 255

RECURSIVE IsUtf8(_)
\* std String::from_utf8 / fs::read_to_string: well-formed UTF-8 only
IsUtf8(b) ==
    IF Len(b) = 0 THEN TRUE
    ELSE LET c == b[1]
             Cont(i) == Len(b) >= i /\ b[i] \in 128 .. 191
         IN  IF c < 128 THEN IsUtf8(Tail(b))
             ELSE IF c \in 194 .. 223
                  THEN Cont(2) /\ IsUtf8(SubSeq(b, 3, Len(b)))
             ELSE IF c \in 224 .. 239
                  THEN /\ Cont(2) /\ Cont(3)
                       /\ (c = 224 => b[2] >= 160)
                       /\ (c = 237 => b[2] <= 159)
                       /\ IsUtf8(SubSeq(b, 4, Len(b)))
             ELSE IF c \in 240 .. 244
                  THEN /\ Cont(2) /\ Cont(3) /\ Cont(4)
                       /\ (c = 240 => b[2] >= 144)
                       /\ (c = 244 => b[2] <= 143)
                       /\ IsUtf8(SubSeq(b, 5, Len(b)))
             ELSE FALSE

\* char::is_whitespace on the ASCII range: TAB, LF, VT, FF, CR, SPACE
IsWhitespace(c) == c \in {9, 10, 11, 12, 13, 32}

RECURSIVE TrimStart(_)
TrimStart(t) ==
    IF Len(t) > 0 /\ IsWhitespace(t[1]) THEN TrimStart(Tail(t)) ELSE t

RECURSIVE TrimEnd(_)
TrimEnd(t) ==
    IF Len(t) > 0 /\ IsWhitespace(t[Len(t)])
    THEN TrimEnd(SubSeq(t, 1, Len(t) - 1)) ELSE t

\* str::trim
trim(t) == TrimEnd(TrimStart(t))

----------------------------------------------------------------------------
(* The hex crate *)

\* hex::encode writes lowercase digits
HexDigit(n) == IF n < 10 THEN 48 + n ELSE 87 + n

\* hex::decode reads both cases; -1 is "not a hex digit"
HexVal(c) ==
    IF c \in 48 .. 57 THEN c - 48
    ELSE IF c \in 97 .. 102 THEN c - 87
    ELSE IF c \in 65 .. 70 THEN c - 55
    ELSE -1

hex_encode(b) ==
    [i \in 1 .. 2 * Len(b) |->
        HexDigit(IF i % 2 = 1 THEN b[(i + 1) \div 2] \div 16
                 ELSE b[i \div 2] % 16)]

hex_decode(t) ==
    IF Len(t) % 2 # 0 THEN Err("Odd number of digits")
    ELSE IF \E i \in 1 .. Len(t) : HexVal(t[i]) < 0
         THEN Err("Invalid character")
    ELSE Ok([i \in 1 .. Len(t) \div 2 |->
                HexVal(t[2 * i - 1]) * 16 + HexVal(t[2 * i])])

\* ASCII upper-casing of the hex letters, as another writer of the file may do
ToUpperHex(t) == [i \in 1 .. Len(t) |-> IF t[i] \in 97 .. 102 THEN t[i] - 32 ELSE t[i]]

----------------------------------------------------------------------------
(* KeyManager: src/config/mod.rs *)

\* [0u8; 32]: the size of the symmetric key
KeyLen == 32

\* The s-th value the OS entropy source can fill a buffer of n bytes with
Entropy(s, n) == [i \in 1 .. n |-> (s * 37 + i * 11) % 256]

\* The keys rng.try_fill_bytes(&mut key) can deliver
KeyPool == {Entropy(s, KeyLen) : s \in 1 .. NumKeys}

\* A mutated length check: accepts any key of at least KeyLen bytes
KeyLengthOkAtLeast(n) == n >= KeyLen

\* key_bytes.len() != 32 is rejected
KeyLengthOk(n) == n = KeyLen

\* A mutated load: regenerates the key on every call instead of reading it
LoadRegenerating(file, mode, newKey, permsOk) ==
    [ret |-> Ok(newKey), file |-> Some(hex_encode(newKey)),
     mode |-> "0600", wrote |-> TRUE]

\* A mutated load: a key file that exists is decoded and returned whatever
\* its length
LoadWithoutLengthCheck(file, mode, newKey, permsOk) ==
    IF IsSome(file)
    THEN LET content == Unwrap(file)
             same(r) == [ret |-> r, file |-> file, mode |-> mode, wrote |-> FALSE]
         IN  IF ~IsUtf8(content)
             THEN same(Err("Failed to read encryption key"))
             ELSE LET d == hex_decode(trim(content))
                  IN  IF ~d.ok
                      THEN same(Err("Failed to decode encryption key"))
                      ELSE same(Ok(d.val[1]))
    ELSE LET written == Some(hex_encode(newKey))
         IN  IF ~permsOk
             THEN [ret |-> Err("Failed to set encryption key permissions"),
                   file |-> written, mode |-> "default", wrote |-> TRUE]
             ELSE [ret |-> Ok(newKey), file |-> written,
                   mode |-> "0600", wrote |-> TRUE]

\* load_or_create_key as a function of the file system and of its two
\* environment inputs: the key the entropy source delivers and whether
\* fs::set_permissions succeeds.  Returns the result and the file afterwards.
load_or_create_key(file, mode, newKey, permsOk) ==
    IF IsSome(file)
    THEN LET content == Unwrap(file)
             same(r) == [ret |-> r, file |-> file, mode |-> mode, wrote |-> FALSE]
         IN  IF ~IsUtf8(content)
             THEN same(Err("Failed to read encryption key"))
             ELSE LET d == hex_decode(trim(content))
                  IN  IF ~d.ok
                      THEN same(Err("Failed to decode encryption key"))
                      ELSE IF ~KeyLengthOk(Len(d.val[1]))
                           THEN same(Err("Encryption key must be 32 bytes"))
                           ELSE same(Ok(d.val[1]))
    ELSE LET written == Some(hex_encode(newKey))
         IN  IF ~permsOk
             THEN [ret |-> Err("Failed to set encryption key permissions"),
                   file |-> written, mode |-> "default", wrote |-> TRUE]
             ELSE [ret |-> Ok(newKey), file |-> written,
                   mode |-> "0600", wrote |-> TRUE]

\* What a db.key found on disk at startup may hold: a key written by this
\* program (possibly re-saved with a trailing newline or in upper case), or
\* a damaged file
KeyFileContents ==
    LET lens == (KeyLen - MaxLenDelta) .. (KeyLen + MaxLenDelta)
        good == {hex_encode(k) : k \in KeyPool}
    IN  good
        \cup {h \o <<10>> : h \in good}
        \cup {<<32>> \o h \o <<13, 10>> : h \in good}
        \cup {ToUpperHex(h) : h \in good}
        \cup {hex_encode(Entropy(s, n)) : s \in 1 .. NumKeys, n \in lens}
        \cup {<<>>,
              SubSeq(hex_encode(Entropy(1, KeyLen)), 1, 2 * KeyLen - 1),
              [hex_encode(Entropy(1, KeyLen)) EXCEPT ![1] = 103],
              [hex_encode(Entropy(1, KeyLen)) EXCEPT ![1] = 255]}

KeyInit ==
    /\ keyFile \in {None} \cup {Some(c) : c \in KeyFileContents}
    /\ keyMode = (IF keyFile = None THEN "none" ELSE "default")
    /\ keyCalls = <<>>

\* No key file, and no call yet
KeyAbsent ==
    /\ keyFile = None
    /\ keyMode = "none"
    /\ keyCalls = <<>>

\* The key file as load_or_create_key wrote it, before any recorded call
KeyReady ==
    /\ keyFile \in {Some(hex_encode(k)) : k \in KeyPool}
    /\ keyMode = "0600"
    /\ keyCalls = <<>>

\* One call of load_or_create_key
LoadOrCreateKey ==
    /\ Len(keyCalls) < MaxKeyCalls
    /\ \E newKey \in KeyPool, permsOk \in BOOLEAN :
         LET r == load_or_create_key(keyFile, keyMode, newKey, permsOk)
         IN  /\ keyFile' = r.file
             /\ keyMode' = r.mode
             /\ keyCalls' = Append(keyCalls,
                    [ret |-> r.ret, wrote |-> r.wrote,
                     before |-> keyFile, after |-> r.file])
    /\ UNCHANGED <<hostVars, sideVars, clientVars, cipherVars, tableVars>>

KeyNext == LoadOrCreateKey

----------------------------------------------------------------------------
(* The base64 crate, BASE64_STANDARD: alphabet A-Z a-z 0-9 + /, padding    *)
(* with '=' written and required, trailing bits refused                    *)

B64Char(v) ==
    IF v < 26 THEN 65 + v
    ELSE IF v < 52 THEN 71 + v
    ELSE IF v < 62 THEN v - 4
    ELSE IF v = 62 THEN 43
    ELSE 47

\* -1 is "not a symbol of the alphabet" ('=' included)
B64Val(c) ==
    IF c \in 65 .. 90 THEN c - 65
    ELSE IF c \in 97 .. 122 THEN c - 71
    ELSE IF c \in 48 .. 57 THEN c + 4
    ELSE IF c = 43 THEN 62
    ELSE IF c = 47 THEN 63
    ELSE -1

b64_encode(b) ==
    LET n == Len(b)
        At(i) == IF i <= n THEN b[i] ELSE 0
    IN  [j \in 1 .. 4 * ((n + 2) \div 3) |->
            LET g == 3 * ((j - 1) \div 4)
                k == (j - 1) % 4
            IN  IF k = 0 THEN B64Char(At(g + 1) \div 4)
                ELSE IF k = 1
                     THEN B64Char((At(g + 1) % 4) * 16 + At(g + 2) \div 16)
                ELSE IF k = 2
                     THEN IF g + 2 > n THEN 61
                          ELSE B64Char((At(g + 2) % 16) * 4 + At(g + 3) \div 64)
                ELSE IF g + 3 > n THEN 61 ELSE B64Char(At(g + 3) % 64)]

\* the bytes of a sequence of 6-bit values whose length is not 1 modulo 4
B64Bytes(v) ==
    [i \in 1 .. (3 * Len(v)) \div 4 |->
        LET g == 4 * ((i - 1) \div 3)
            k == (i - 1) % 3
        IN  IF k = 0 THEN v[g + 1] * 4 + v[g + 2] \div 16
            ELSE IF k = 1 THEN (v[g + 2] % 16) * 16 + v[g + 3] \div 4
            ELSE (v[g + 3] % 4) * 64 + v[g + 4]]

b64_decode(t) ==
    LET n == Len(t)
        pad == IF n >= 2 /\ t[n] = 61 /\ t[n - 1] = 61 THEN 2
               ELSE IF n >= 1 /\ t[n] = 61 THEN 1 ELSE 0
        vals == [i \in 1 .. n - pad |-> B64Val(t[i])]
        m == n - pad
    IN  IF \E i \in 1 .. m : vals[i] < 0 THEN Err("Invalid byte")
        ELSE IF n % 4 # 0 THEN Err("Invalid padding")
        ELSE IF pad = 2 /\ vals[m] % 16 # 0 THEN Err("Invalid last symbol")
        ELSE IF pad = 1 /\ vals[m] % 4 # 0 THEN Err("Invalid last symbol")
        ELSE Ok(B64Bytes(vals))

----------------------------------------------------------------------------
(* The aes-gcm crate, Aes256Gcm, by its contract: sealing under (key,      *)
(* nonce) turns n bytes of plaintext into n bytes of ciphertext followed   *)
(* by a 16-byte tag; opening checks the tag and fails on any other key,    *)
(* nonce or buffer, and on a buffer shorter than the tag.  The arithmetic  *)
(* stands in for AES-CTR and GHASH.                                        *)

Keystream(key, nonce, i) ==
    (key[((i - 1) % 32) + 1] * 3 + nonce[((i - 1) % 12) + 1] * 5 + i * 7) % 256

RECURSIVE WeightedSum(_)
WeightedSum(b) ==
    IF Len(b) = 0 THEN 0
    ELSE (b[Len(b)] * (Len(b) + 1) + WeightedSum(SubSeq(b, 1, Len(b) - 1))) % 256

AeadTag(key, nonce, ct) ==
    LET w == WeightedSum(ct)
    IN  [j \in 1 .. 16 |->
            (key[j] + 2 * key[j + 16] + nonce[((j - 1) % 12) + 1] * j
             + w * (2 * j + 1) + Len(ct) * 13) % 256]

\* cipher.encrypt(nonce, plaintext)
aead_encrypt(key, nonce, pt) ==
    LET ct == [i \in 1 .. Len(pt) |-> (pt[i] + Keystream(key, nonce, i)) % 256]
    IN  ct \o AeadTag(key, nonce, ct)

\* cipher.decrypt(nonce, buffer)
aead_decrypt(key, nonce, buf) ==
    IF Len(buf) < 16 THEN Err("aead::Error")
    ELSE LET ct == SubSeq(buf, 1, Len(buf) - 16)
             tag == SubSeq(buf, Len(buf) - 15, Len(buf))
         IN  IF tag # AeadTag(key, nonce, ct) THEN Err("aead::Error")
             ELSE Ok([i \in 1 .. Len(ct) |->
                        (ct[i] + 256 - Keystream(key, nonce, i)) % 256])

----------------------------------------------------------------------------
(* CredentialCipher: Database::encrypt_password, Database::decrypt_password *)

\* [0u8; 12]: the size of the nonce, and where decrypt_password splits
NonceLen == 12

\* The nonces rng.try_fill_bytes(&mut nonce_bytes) can deliver
NoncePool == {Entropy(s, NonceLen) : s \in 1 .. NumNonces}

\* The passwords the model encrypts: "", "é", "pass123"
Passwords == {<<>>, <<195, 169>>, <<112, 97, 115, 115, 49, 50, 51>>}

\* A mutated encrypt: the payload holds the ciphertext without its nonce
EncryptWithoutNonce(key, nonce, password) ==
    Ok(b64_encode(aead_encrypt(key, nonce, password)))

\* A mutated encrypt: the nonce buffer is used as initialised, all zero,
\* without the entropy source filling it
EncryptZeroNonce(key, nonce, password) ==
    LET zero == [i \in 1 .. NonceLen |-> 0]
    IN  Ok(b64_encode(zero \o aead_encrypt(key, zero, password)))

\* encrypt_password as a function of the key, of the nonce the entropy
\* source delivers and of the password
encrypt_password(key, nonce, password) ==
    LET ciphertext == aead_encrypt(key, nonce, password)
        payload == nonce \o ciphertext
    IN  Ok(b64_encode(payload))

\* A mutated decrypt: a short payload is opened with what nonce there is
DecryptNoLengthCheck(key, encrypted) ==
    LET d == b64_decode(encrypted)
    IN  IF ~d.ok THEN Err("Failed to decode encrypted password")
        ELSE LET payload == d.val[1]
                 cut == IF Len(payload) < NonceLen THEN Len(payload) ELSE NonceLen
                 a == IF Len(payload) < NonceLen
                      THEN Err("aead::Error")
                      ELSE aead_decrypt(key, SubSeq(payload, 1, cut),
                                        SubSeq(payload, cut + 1, Len(payload)))
             IN  IF ~a.ok THEN Err("Failed to decrypt password")
                 ELSE IF ~IsUtf8(a.val[1])
                      THEN Err("Decrypted password is not valid UTF-8")
                      ELSE Ok(a.val[1])

\* decrypt_password; the error is the message the anyhow::Error displays
decrypt_password(key, encrypted) ==
    LET d == b64_decode(encrypted)
    IN  IF ~d.ok THEN Err("Failed to decode encrypted password")
        ELSE LET payload == d.val[1]
             IN  IF Len(payload) < NonceLen
                 THEN Err("Encrypted password payload is too short")
                 ELSE LET nonce_bytes == SubSeq(payload, 1, NonceLen)
                          ciphertext == SubSeq(payload, NonceLen + 1, Len(payload))
                          a == aead_decrypt(key, nonce_bytes, ciphertext)
                      IN  IF ~a.ok THEN Err("Failed to decrypt password")
                          ELSE IF ~IsUtf8(a.val[1])
                               THEN Err("Decrypted password is not valid UTF-8")
                               ELSE Ok(a.val[1])

----------------------------------------------------------------------------
(* Payloads that did not come out of encrypt_password under the process    *)
(* key: what a damaged or foreign database holds                           *)

\* An intact payload t after truncation, a flipped byte or a broken encoding
Damage(t) ==
    LET raw == b64_decode(t).val[1]
        n == Len(raw)
    IN  {b64_encode(SubSeq(raw, 1, NonceLen - 1)),
         <<>>,
         b64_encode(SubSeq(raw, 1, NonceLen)),
         b64_encode([raw EXCEPT ![n] = (@ + 1) % 256]),
         SubSeq(t, 1, Len(t) - 1),
         [t EXCEPT ![1] = 42]}

\* Payloads sealed under another installation's key
Foreign(key) ==
    LET others == KeyPool \ {key}
        k == CHOOSE o \in others : \A x \in others : o[1] <= x[1]
    IN  {encrypt_password(k, Entropy(1, NonceLen),
                          <<112, 97, 115, 115, 49, 50, 51>>).val[1]}

\* Payloads sealed under the process key by a writer that stored bytes
\* which are not UTF-8
NonText(key) ==
    {b64_encode(Entropy(1, NonceLen)
                \o aead_encrypt(key, Entropy(1, NonceLen), b)) :
        b \in {<<255>>, <<97, 195>>}}

\* One decrypt_password call: its input and what it returned
Decryption(key, input) ==
    [input |-> input, ret |-> decrypt_password(key, input)]

\* encrypt_password, and decrypt_password on what became of its payloads,
\* over the inputs the actions draw; evaluated once
Sealed ==
    [k \in KeyPool, n \in NoncePool, p \in Passwords |-> encrypt_password(k, n, p)]

OpenedStored ==
    [k \in KeyPool, n \in NoncePool, p \in Passwords |->
        Decryption(k, Sealed[k, n, p].val[1])]

OpenedDamaged ==
    [k \in KeyPool, n \in NoncePool, p \in Passwords |->
        {Decryption(k, t) : t \in Damage(Sealed[k, n, p].val[1])}]

OpenedForeign ==
    [k \in KeyPool |-> {Decryption(k, t) : t \in Foreign(k) \cup NonText(k)}]

----------------------------------------------------------------------------
(* CredentialCipher as a state machine: calls of encrypt_password and of   *)
(* decrypt_password on one Database                                        *)

\* After Database::new: encryption_key is the key of the key file
CipherInit ==
    /\ encryption_key = Some(hex_decode(Unwrap(keyFile)).val[1])
    /\ encCalls = <<>>
    /\ decCall = None

CipherIdle ==
    /\ encryption_key = None
    /\ encCalls = <<>>
    /\ decCall = None

\* One call of encrypt_password
EncryptPassword ==
    /\ IsSome(encryption_key)
    /\ Len(encCalls) < MaxEncCalls
    /\ \E password \in Passwords, nonce \in NoncePool :
         encCalls' = Append(encCalls,
            [password |-> password, nonce |-> nonce,
             ret |-> Sealed[Unwrap(encryption_key), nonce, password]])
    /\ UNCHANGED <<hostVars, sideVars, clientVars, encryption_key, decCall, keyVars, tableVars>>

\* The latest encrypt_password call
LatestCall == encCalls[Len(encCalls)]

\* decrypt_password on the payload encrypt_password returned
DecryptStored ==
    /\ IsSome(encryption_key)
    /\ Len(encCalls) > 0
    /\ decCall' = Some(OpenedStored[Unwrap(encryption_key),
                                    LatestCall.nonce, LatestCall.password])
    /\ UNCHANGED <<hostVars, sideVars, clientVars, encryption_key, encCalls, keyVars, tableVars>>

\* decrypt_password on that payload, damaged after it was stored
DecryptDamaged ==
    /\ IsSome(encryption_key)
    /\ Len(encCalls) > 0
    /\ \E c \in OpenedDamaged[Unwrap(encryption_key),
                               LatestCall.nonce, LatestCall.password] :
         decCall' = Some(c)
    /\ UNCHANGED <<hostVars, sideVars, clientVars, encryption_key, encCalls, keyVars, tableVars>>

\* decrypt_password on a payload another writer produced
DecryptForeign ==
    /\ IsSome(encryption_key)
    /\ \E c \in OpenedForeign[Unwrap(encryption_key)] : decCall' = Some(c)
    /\ UNCHANGED <<hostVars, sideVars, clientVars, encryption_key, encCalls, keyVars, tableVars>>

CipherNext ==
    \/ EncryptPassword
    \/ DecryptStored
    \/ DecryptDamaged
    \/ DecryptForeign

----------------------------------------------------------------------------
(* CredentialVault: the endpoints table and Database::get_endpoint_password *)

\* What the endpoint form submits besides the credentials
Profiles ==
    {[name |-> "es-a", url |-> "http://a:9200", insecure |-> FALSE],
     [name |-> "es-b", url |-> "https://b:9200", insecure |-> TRUE]}

Usernames == {None, Some("elastic")}

\* The handlers turn an empty password field into None
FormPasswords == {None} \cup {Some(p) : p \in Passwords \ {<<>>}}

\* The password columns of the current schema and of the legacy one
CurrentColumns == {"password_encrypted"}
LegacyColumns == {"password_keychain_id", "password_fallback"}

Row(profile, username, keychain_id, fallback, encrypted) ==
    [name |-> profile.name, url |-> profile.url, insecure |-> profile.insecure,
     username |-> username,
     password_keychain_id |-> keychain_id, password_fallback |-> fallback,
     password_encrypted |-> encrypted]

\* A mutated reveal: when the payload does not decrypt, the stored text is
\* handed out as the password
RevealStoredOnFailure(key, id, ep) ==
    IF IsSome(ep.password_encrypted)
    THEN LET d == decrypt_password(key, Unwrap(ep.password_encrypted))
         IN  [ret |-> IF d.ok THEN Some(d.val[1]) ELSE ep.password_encrypted,
              logs |-> <<>>]
    ELSE [ret |-> None, logs |-> <<>>]

\* get_endpoint_password: the Option it returns and the lines it logs
get_endpoint_password(key, id, ep) ==
    LET d == IF IsSome(ep.password_encrypted)
             THEN decrypt_password(key, Unwrap(ep.password_encrypted))
             ELSE Err("")
        failed == IF IsSome(ep.password_encrypted) /\ ~d.ok
                  THEN <<[level |-> "WARN",
                          msg |-> "Failed to decrypt password for endpoint",
                          id |-> id, cause |-> d.err]>>
                  ELSE <<>>
        absent == <<[level |-> IF IsSome(ep.username) THEN "WARN" ELSE "DEBUG",
                     msg |-> "No password available for endpoint",
                     id |-> id, cause |-> ""]>>
    IN  IF d.ok THEN [ret |-> Some(d.val[1]), logs |-> <<>>]
        ELSE [ret |-> None, logs |-> failed \o absent]

\* The stored texts a damaged or foreign database holds in place of a
\* payload: not base64, shorter than a nonce, a flipped tag, a foreign key,
\* bytes that are not text
DamagedPayloads(key) ==
    LET t == encrypt_password(key, Entropy(1, NonceLen),
                              <<112, 97, 115, 115, 49, 50, 51>>).val[1]
        raw == b64_decode(t).val[1]
    IN  {[t EXCEPT ![1] = 42],
         b64_encode(SubSeq(raw, 1, NonceLen - 1)),
         b64_encode([raw EXCEPT ![Len(raw)] = (@ + 1) % 256])}
        \cup Foreign(key)
        \cup {b64_encode(Entropy(1, NonceLen)
                         \o aead_encrypt(key, Entropy(1, NonceLen), <<255>>))}

Damaged == [k \in KeyPool |-> DamagedPayloads(k)]

TableInit ==
    /\ columns = CurrentColumns
    /\ endpoints = <<>>
    /\ revealed = None
    /\ legacyRows = <<>>
    /\ startup = None

\* What the forms of the endpoint handlers deliver: name, url and insecure,
\* a username, a password
EndpointForms ==
    [profile : Profiles, username : Usernames, password : FormPasswords]

\* Database::create_endpoint: INSERT with password_encrypted NULL, then
\* UPDATE of password_encrypted when a password was given, in one
\* transaction; the new id is the next rowid
create_endpoint(key, rows, form, nonce) ==
    Append(rows,
           Row(form.profile, form.username, None, None,
               IF IsSome(form.password)
               THEN Some(Sealed[key, nonce, Unwrap(form.password)].val[1])
               ELSE None))

\* A mutated update: with no password given the stored payload is cleared
UpdateClearingOnNone(key, rows, id, form, nonce) ==
    [rows EXCEPT ![id] =
        Row(form.profile, form.username, None, None,
            IF IsSome(form.password)
            THEN Some(Sealed[key, nonce, Unwrap(form.password)].val[1])
            ELSE None)]

\* Database::update_endpoint: UPDATE of name, url, insecure, username, then
\* of password_encrypted when a password was given, in one transaction
update_endpoint(key, rows, id, form, nonce) ==
    [rows EXCEPT ![id] =
        Row(form.profile, form.username, None, None,
            IF IsSome(form.password)
            THEN Some(Sealed[key, nonce, Unwrap(form.password)].val[1])
            ELSE rows[id].password_encrypted)]

CreateEndpoint ==
    /\ IsSome(encryption_key)
    /\ columns = CurrentColumns
    /\ Len(endpoints) < MaxEndpoints
    /\ \E form \in EndpointForms, nonce \in NoncePool :
         endpoints' = create_endpoint(Unwrap(encryption_key), endpoints,
                                      form, nonce)
    /\ revealed' = None
    /\ UNCHANGED <<hostVars, sideVars, clientVars, columns, legacyRows,
                   startup, cipherVars, keyVars>>

UpdateEndpoint ==
    /\ IsSome(encryption_key)
    /\ columns = CurrentColumns
    /\ \E id \in 1 .. Len(endpoints), form \in EndpointForms,
          nonce \in NoncePool :
         endpoints' = update_endpoint(Unwrap(encryption_key), endpoints,
                                      id, form, nonce)
    /\ revealed' = None
    /\ UNCHANGED <<hostVars, sideVars, clientVars, columns, legacyRows,
                   startup, cipherVars, keyVars>>

\* What a browser posts in the username and password fields of the endpoint
\* forms: nothing, an empty text, a text
PostedUsernames == Usernames \cup {Some("")}
PostedPasswords == {None} \cup {Some(p) : p \in Passwords}

\* The handlers turn a missing or empty field into None
FormField(posted, empty) ==
    IF posted = None \/ posted = Some(empty) THEN None ELSE posted

\* The form the handlers hand to the database
FormOf(profile, username, password) ==
    [profile |-> profile, username |-> FormField(username, ""),
     password |-> FormField(password, <<>>)]

\* handlers::endpoints::create_endpoint: POST /endpoints
PostEndpoint ==
    /\ IsSome(encryption_key)
    /\ columns = CurrentColumns
    /\ Len(endpoints) < MaxEndpoints
    /\ \E profile \in Profiles, username \in PostedUsernames,
          password \in PostedPasswords, nonce \in NoncePool :
         LET form == FormOf(profile, username, password)
         IN  /\ endpoints' = create_endpoint(Unwrap(encryption_key),
                                             endpoints, form, nonce)
             /\ vaultLog' =
                  [call |-> Some([op |-> "create_endpoint",
                                  id |-> Len(endpoints) + 1,
                                  form |-> form, before |-> None]),
                   supplied |-> Append(vaultLog.supplied, form.password)]
    /\ revealed' = None
    /\ UNCHANGED <<hostVars, raceVars, consoleVars, sessionVars, shardVars,
                   clientVars, columns, legacyRows, startup, cipherVars, keyVars>>

\* handlers::endpoints::update_endpoint: PUT /endpoints/:id
PutEndpoint ==
    /\ IsSome(encryption_key)
    /\ columns = CurrentColumns
    /\ \E id \in 1 .. Len(endpoints), profile \in Profiles,
          username \in PostedUsernames, password \in PostedPasswords,
          nonce \in NoncePool :
         LET form == FormOf(profile, username, password)
         IN  /\ endpoints' = update_endpoint(Unwrap(encryption_key),
                                             endpoints, id, form, nonce)
             /\ vaultLog' =
                  [call |-> Some([op |-> "update_endpoint", id |-> id,
                                  form |-> form,
                                  before |-> endpoints[id].password_encrypted]),
                   supplied |-> IF IsSome(form.password)
                                THEN [vaultLog.supplied EXCEPT
                                          ![id] = form.password]
                                ELSE vaultLog.supplied]
    /\ revealed' = None
    /\ UNCHANGED <<hostVars, raceVars, consoleVars, sessionVars, shardVars,
                   clientVars, columns, legacyRows, startup, cipherVars, keyVars>>

\* The stored payload of a row is damaged on disk, or replaced by one that
\* another writer produced
DamageStored ==
    /\ IsSome(encryption_key)
    /\ \E id \in 1 .. Len(endpoints) :
         \E t \in Damaged[Unwrap(encryption_key)] :
            endpoints' = [endpoints EXCEPT ![id].password_encrypted = Some(t)]
    /\ revealed' = None
    /\ UNCHANGED <<hostVars, sideVars, clientVars, columns, legacyRows, startup, cipherVars, keyVars>>

\* One call of get_endpoint_password on a row of the table; revealed holds
\* the call until the table is written again
GetEndpointPassword ==
    /\ IsSome(encryption_key)
    /\ \E id \in 1 .. Len(endpoints) :
         LET r == get_endpoint_password(Unwrap(encryption_key), id, endpoints[id])
         IN  revealed' = Some([id |-> id, ret |-> r.ret, logs |-> r.logs])
    /\ UNCHANGED <<hostVars, sideVars, clientVars, columns, endpoints, legacyRows, startup, cipherVars, keyVars>>

VaultNext ==
    \/ CreateEndpoint
    \/ UpdateEndpoint
    \/ DamageStored
    \/ GetEndpointPassword

----------------------------------------------------------------------------
(* LegacyMigrator: Database::new and Database::run_migrations              *)

\* What the legacy columns of a row hold: the id of an OS keychain entry
\* and the password in base64 ("pass123", or a text that is not base64)
KeychainIds == {None, Some("endpoint-1")}

LegacyFallbacks ==
    {None, Some(b64_encode(<<112, 97, 115, 115, 49, 50, 51>>)), Some(<<33, 33>>)}

\* What password_encrypted of a row written before this start holds
StoredBefore ==
    {None, Some(encrypt_password(Entropy(1, KeyLen), Entropy(1, NonceLen),
                                 <<112, 97, 115, 115, 49, 50, 51>>).val[1])}

\* The rows a table with the given password columns can hold at startup
RowsOf(cols) ==
    {Row(profile, Some("elastic"), keychain_id, fallback, encrypted) :
        profile \in {p \in Profiles : ~p.insecure},
        keychain_id \in IF "password_keychain_id" \in cols
                        THEN KeychainIds ELSE {None},
        fallback \in IF "password_fallback" \in cols
                     THEN LegacyFallbacks ELSE {None},
        encrypted \in IF "password_encrypted" \in cols
                      THEN StoredBefore ELSE {None}}

\* The statements of migration 004 run as one raw SQL script on the pool,
\* before the key is loaded: whatever the script writes into
\* password_encrypted is computed by SQL from the row alone.  The rules are
\* the values SQL can put there: NULL, the value the column had, the
\* fallback text as stored.
SqlRules == {"null", "keep", "copy_fallback"}

Migration004(rows, rule) ==
    [id \in 1 .. Len(rows) |->
        [rows[id] EXCEPT
            !.password_keychain_id = None,
            !.password_fallback = None,
            !.password_encrypted =
                IF rule = "null" THEN None
                ELSE IF rule = "keep" THEN rows[id].password_encrypted
                ELSE rows[id].password_fallback]]

\* A line of the log that belongs to no endpoint
Info(msg) == [level |-> "INFO", msg |-> msg, id |-> 0, cause |-> ""]

\* The two lines run_migrations logs, whether migration 004 ran or not
MigrationLogs ==
    <<Info("Running database migrations..."),
      Info("Migrations completed successfully")>>

\* A mutated run_migrations: migration 004 runs at every start
RunMigrationsAlways(cols, rows, rule) ==
    [columns |-> CurrentColumns, rows |-> Migration004(rows, rule),
     ran |-> TRUE, logs |-> MigrationLogs]

\* run_migrations: migration 004 runs when the table has a legacy column or
\* lacks password_encrypted, and is skipped otherwise
run_migrations(cols, rows, rule) ==
    LET has_legacy_columns == cols \cap LegacyColumns # {}
        has_encrypted_column == "password_encrypted" \in cols
    IN  IF has_legacy_columns \/ ~has_encrypted_column
        THEN [columns |-> CurrentColumns, rows |-> Migration004(rows, rule),
              ran |-> TRUE, logs |-> MigrationLogs]
        ELSE [columns |-> cols, rows |-> rows, ran |-> FALSE,
              logs |-> MigrationLogs]

\* The database file and the key file a start of the program can find
MigrationInit ==
    /\ keyFile \in {None} \cup {Some(hex_encode(k)) : k \in KeyPool}
    /\ keyMode = (IF keyFile = None THEN "none" ELSE "0600")
    /\ keyCalls = <<>>
    /\ columns \in {LegacyColumns, LegacyColumns \cup CurrentColumns, CurrentColumns}
    /\ \E n \in 0 .. MaxEndpoints : endpoints \in [1 .. n -> RowsOf(columns)]
    /\ revealed = None
    /\ legacyRows = <<>>
    /\ startup = None

\* Database::new: run_migrations, then load_or_create_key; the Database
\* exists when both succeeded
DatabaseNewStep ==
    /\ encryption_key = None
    /\ Len(keyCalls) < MaxKeyCalls
    /\ \E rule \in SqlRules :
       \E m \in {run_migrations(columns, endpoints, rule)} :
       \E newKey \in KeyPool, permsOk \in BOOLEAN :
       \E r \in {load_or_create_key(keyFile, keyMode, newKey, permsOk)} :
             /\ columns' = m.columns
             /\ endpoints' = m.rows
             /\ legacyRows' = IF m.ran THEN endpoints ELSE legacyRows
             /\ startup' = Some([ran |-> m.ran,
                                 logs |-> <<Info("Connecting to database")>> \o m.logs,
                                 ok |-> r.ret.ok,
                                 columns |-> columns, rows |-> endpoints])
             /\ keyFile' = r.file
             /\ keyMode' = r.mode
             /\ keyCalls' = Append(keyCalls,
                    [ret |-> r.ret, wrote |-> r.wrote,
                     before |-> keyFile, after |-> r.file])
             /\ encryption_key' = IF r.ret.ok THEN Some(r.ret.val[1]) ELSE None
    /\ UNCHANGED <<clientVars, encCalls, decCall, revealed>>

DatabaseNew == DatabaseNewStep /\ UNCHANGED <<hostVars, sideVars>>

\* The program exits; the database file and the key file stay as they are
Shutdown ==
    /\ IsSome(encryption_key)
    /\ Len(keyCalls) < MaxKeyCalls
    /\ encryption_key' = None
    /\ revealed' = None
    /\ UNCHANGED <<hostVars, sideVars, columns, endpoints, legacyRows, startup, encCalls, decCall,
                   keyVars, clientVars>>

MigrationNext ==
    \/ DatabaseNew
    \/ Shutdown
    \/ GetEndpointPassword

----------------------------------------------------------------------------
(* RemoteClient and VersionGate: src/es/client.rs, src/es/api.rs           *)

\* str::trim_end_matches('/') and str::trim_start_matches('/')
RECURSIVE TrimEndSlashes(_)
TrimEndSlashes(t) ==
    IF Len(t) > 0 /\ t[Len(t)] = 47
    THEN TrimEndSlashes(SubSeq(t, 1, Len(t) - 1)) ELSE t

RECURSIVE TrimStartSlashes(_)
TrimStartSlashes(t) ==
    IF Len(t) > 0 /\ t[1] = 47 THEN TrimStartSlashes(Tail(t)) ELSE t

\* str::split('.'): the pieces between the dots, empty pieces included
RECURSIVE SplitDots(_)
SplitDots(t) ==
    IF \A i \in 1 .. Len(t) : t[i] # 46 THEN <<t>>
    ELSE LET d == CHOOSE i \in 1 .. Len(t) :
                     t[i] = 46 /\ \A j \in 1 .. i - 1 : t[j] # 46
         IN  <<SubSeq(t, 1, d - 1)>> \o SplitDots(SubSeq(t, d + 1, Len(t)))

\* The value of a sequence of decimal digits
RECURSIVE DigitsValue(_)
DigitsValue(t) ==
    IF Len(t) = 0 THEN 0
    ELSE 10 * DigitsValue(SubSeq(t, 1, Len(t) - 1)) + (t[Len(t)] - 48)

RECURSIVE StripZeros(_)
StripZeros(t) ==
    IF Len(t) > 1 /\ t[1] = 48 THEN StripZeros(Tail(t)) ELSE t

\* The digits of u32::MAX, 4294967295
U32MaxDigits == <<52, 50, 57, 52, 57, 54, 55, 50, 57, 53>>

\* Whether digits without leading zeros spell a value above u32::MAX
AboveU32(t) ==
    \/ Len(t) > Len(U32MaxDigits)
    \/ /\ Len(t) = Len(U32MaxDigits)
       /\ \E i \in 1 .. Len(t) :
             /\ t[i] > U32MaxDigits[i]
             /\ \A j \in 1 .. i - 1 : t[j] = U32MaxDigits[j]

\* str::parse::<u32>: an optional '+', then one or more digits, and a value
\* that fits 32 bits
ParseU32(t) ==
    LET digits == IF Len(t) > 0 /\ t[1] = 43 THEN Tail(t) ELSE t
    IN  IF Len(digits) = 0 THEN Err("cannot parse integer from empty string")
        ELSE IF \E i \in 1 .. Len(digits) : digits[i] \notin 48 .. 57
             THEN Err("invalid digit found in string")
        ELSE IF AboveU32(StripZeros(digits))
             THEN Err("number too large to fit in target type")
        ELSE Ok(DigitsValue(StripZeros(digits)))

\* A mutated parse: a text of more than three components is refused
FromStringExactlyThree(version_str) ==
    LET parts == SplitDots(version_str)
    IN  IF Len(parts) # 3 THEN Err("Invalid version format")
        ELSE LET major == ParseU32(parts[1])
                 minor == ParseU32(parts[2])
                 patch == ParseU32(parts[3])
             IN  IF ~major.ok THEN Err("Invalid major version")
                 ELSE IF ~minor.ok THEN Err("Invalid minor version")
                 ELSE IF ~patch.ok THEN Err("Invalid patch version")
                 ELSE Ok([major |-> major.val[1], minor |-> minor.val[1],
                          patch |-> patch.val[1]])

\* EsVersion::from_string
from_string(version_str) ==
    LET parts == SplitDots(version_str)
    IN  IF Len(parts) < 3 THEN Err("Invalid version format")
        ELSE LET major == ParseU32(parts[1])
                 minor == ParseU32(parts[2])
                 patch == ParseU32(parts[3])
             IN  IF ~major.ok THEN Err("Invalid major version")
                 ELSE IF ~minor.ok THEN Err("Invalid minor version")
                 ELSE IF ~patch.ok THEN Err("Invalid patch version")
                 ELSE Ok([major |-> major.val[1], minor |-> minor.val[1],
                          patch |-> patch.val[1]])

\* The decimal digits of a natural number, as the remote writes them
RECURSIVE Decimal(_)
Decimal(n) ==
    IF n < 10 THEN <<48 + n>> ELSE Decimal(n \div 10) \o <<48 + (n % 10)>>

\* The version.number texts the root document of a remote can hold:
\* releases major.minor.patch, and "7.8", "8.0.0-SNAPSHOT", "7.17.0.1",
\* "+7.+8.0", "4294967296.0.0", "", "7.17", "a.b.c", "7..0"
RemoteNumbers ==
    {Decimal(major) \o <<46>> \o Decimal(minor) \o <<46>> \o Decimal(patch) :
        major \in 5 .. MaxMajor, minor \in {0, 7, 8, 11, 17}, patch \in 0 .. MaxPatch}
    \cup {<<55, 46, 56>>,
          <<56, 46, 48, 46, 48, 45, 83, 78, 65, 80, 83, 72, 79, 84>>,
          <<55, 46, 49, 55, 46, 48, 46, 49>>,
          <<43, 55, 46, 43, 56, 46, 48>>,
          <<52, 50, 57, 52, 57, 54, 55, 50, 57, 54, 46, 48, 46, 48>>,
          <<>>,
          <<55, 46, 49, 55>>,
          <<97, 46, 98, 46, 99>>,
          <<55, 46, 46, 48>>}

\* What becomes of one request: it is not delivered (no connection, or the
\* 30 s timeout), or the remote answers with a status and a body; text is
\* the body as read, None when reading it fails; the body is JSON or not, and
\* a JSON body may be a root document holding version.number
Response(sent, status, text, json, number) ==
    [sent |-> sent, status |-> status, text |-> text, json |-> json,
     number |-> number]

Undelivered == Response(FALSE, 0, None, FALSE, None)

Responses ==
    {Undelivered,
     Response(TRUE, 404, Some("{error}"), TRUE, None),
     Response(TRUE, 200, Some("<html>"), FALSE, None),
     Response(TRUE, 200, Some("{}"), TRUE, None)}
    \cup {Response(TRUE, 200, Some("{version}"), TRUE, Some(n)) :
            n \in RemoteNumbers}

\* The answers the verbs meet: also the ends of the 2xx range and bodies
\* that cannot be read
VerbResponses ==
    {Undelivered,
     Response(TRUE, 404, Some("{error}"), TRUE, None),
     Response(TRUE, 500, None, FALSE, None),
     Response(TRUE, 300, Some("<html>"), FALSE, None),
     Response(TRUE, 299, Some("{}"), TRUE, None),
     Response(TRUE, 200, Some("{}"), TRUE, None),
     Response(TRUE, 200, Some("<html>"), FALSE, None),
     Response(TRUE, 200, None, FALSE, None)}

\* A mutated request: basic auth whenever a username is set, with the
\* password if there is one
RequestAuthByUsername(c, method, path, body) ==
    [method |-> method,
     url |-> c.base_url \o <<47>> \o TrimStartSlashes(path),
     auth |-> IF IsSome(c.username)
              THEN Some(<<Unwrap(c.username),
                          IF IsSome(c.password) THEN Unwrap(c.password)
                          ELSE <<>>>>)
              ELSE None,
     body |-> body]

\* The request a method builds: the url is base_url, '/', and the path
\* without its leading slashes; basic auth only when both username and
\* password are set
Request(c, method, path, body) ==
    [method |-> method,
     url |-> c.base_url \o <<47>> \o TrimStartSlashes(path),
     auth |-> IF IsSome(c.username) /\ IsSome(c.password)
              THEN Some(<<Unwrap(c.username), Unwrap(c.password)>>)
              ELSE None,
     body |-> body]

\* request.send(): the error when the request is not delivered
SendError(method) ==
    Err(IF method = "GET" THEN "Failed to send GET request"
        ELSE IF method = "POST" THEN "Failed to send POST request"
        ELSE IF method = "PUT" THEN "Failed to send PUT request"
        ELSE "Failed to send DELETE request")

\* anyhow!("Elasticsearch error ({}): {}", status, error_text)
StatusError(status, error_text) ==
    [ok |-> FALSE, val |-> <<>>, err |-> "Elasticsearch error",
     status |-> status, body |-> error_text]

\* A mutated check: only the statuses from 400 on are errors
HandleResponseFrom400(response, method) ==
    IF ~response.sent THEN SendError(method)
    ELSE IF response.status >= 400
         THEN StatusError(response.status,
                          IF IsSome(response.text) THEN Unwrap(response.text)
                          ELSE "Failed to read error response")
    ELSE IF response.text = None \/ ~response.json
         THEN Err("Failed to parse response JSON")
    ELSE Ok(Unwrap(response.text))

\* send, then handle_response::<Value>: any JSON body of a successful answer
handle_response(response, method) ==
    IF ~response.sent THEN SendError(method)
    ELSE IF response.status \notin 200 .. 299
         THEN StatusError(response.status,
                          IF IsSome(response.text) THEN Unwrap(response.text)
                          ELSE "Failed to read error response")
    ELSE IF response.text = None \/ ~response.json
         THEN Err("Failed to parse response JSON")
    ELSE Ok(Unwrap(response.text))

\* A mutated raw verb: a status outside 2xx is an error, as for the typed
\* verbs
HandleRawRejectingStatus(response, method) ==
    IF ~response.sent THEN SendError(method)
    ELSE IF response.status \notin 200 .. 299
         THEN StatusError(response.status,
                          IF IsSome(response.text) THEN Unwrap(response.text)
                          ELSE "Failed to read error response")
    ELSE IF response.text = None THEN Err("Failed to read response text")
    ELSE Ok(<<response.status, Unwrap(response.text)>>)

\* send, then handle_raw_response: the status and the text, whatever they are
handle_raw_response(response, method) ==
    IF ~response.sent THEN SendError(method)
    ELSE IF response.text = None THEN Err("Failed to read response text")
    ELSE Ok(<<response.status, Unwrap(response.text)>>)

\* handle_response::<RootResponse>: the body must hold version.number
handle_root_response(response) ==
    LET r == handle_response(response, "GET")
    IN  IF r.ok /\ response.number = None
        THEN Err("Failed to parse response JSON")
        ELSE r

\* A mutated get: a request that failed is sent once more
GetRetrying(c, path, response) ==
    LET request == Request(c, "GET", path, None)
    IN  [requests |-> IF handle_response(response, "GET").ok
                      THEN <<request>> ELSE <<request, request>>,
         ret |-> handle_response(response, "GET")]

\* EsClient::get and EsClient::post: the request sent and the result
get(c, path, response) ==
    [requests |-> <<Request(c, "GET", path, None)>>,
     ret |-> handle_response(response, "GET")]

post(c, path, body, response) ==
    [requests |-> <<Request(c, "POST", path, Some(body))>>,
     ret |-> handle_response(response, "POST")]

\* EsClient::put and EsClient::delete
put(c, path, body, response) ==
    [requests |-> <<Request(c, "PUT", path, Some(body))>>,
     ret |-> handle_response(response, "PUT")]

delete(c, path, response) ==
    [requests |-> <<Request(c, "DELETE", path, None)>>,
     ret |-> handle_response(response, "DELETE")]

\* EsClient::get_raw, post_raw, put_raw, delete_raw
get_raw(c, path, response) ==
    [requests |-> <<Request(c, "GET", path, None)>>,
     ret |-> handle_raw_response(response, "GET")]

post_raw(c, path, body, response) ==
    [requests |-> <<Request(c, "POST", path, Some(body))>>,
     ret |-> handle_raw_response(response, "POST")]

put_raw(c, path, body, response) ==
    [requests |-> <<Request(c, "PUT", path, Some(body))>>,
     ret |-> handle_raw_response(response, "PUT")]

delete_raw(c, path, response) ==
    [requests |-> <<Request(c, "DELETE", path, None)>>,
     ret |-> handle_raw_response(response, "DELETE")]

\* The paths of the version-gated methods: "/_sql", "/_index_template",
\* "/_template", "/_component_template"
SqlPath == <<47, 95, 115, 113, 108>>
IndexTemplatePath == <<47, 95, 105, 110, 100, 101, 120, 95, 116, 101, 109, 112, 108, 97, 116, 101>>
TemplatePath == <<47, 95, 116, 101, 109, 112, 108, 97, 116, 101>>
ComponentTemplatePath ==
    <<47, 95, 99, 111, 109, 112, 111, 110, 101, 110, 116, 95,
      116, 101, 109, 112, 108, 97, 116, 101>>

\* EsClient::new
NewEsClient(base_url, username, password) ==
    [base_url |-> TrimEndSlashes(base_url), username |-> username,
     password |-> password, version |-> None]

\* A mutated detection: a failure forgets the version held
DetectClearingOnFailure(c, response) ==
    LET request == Request(c, "GET", <<>>, None)
        root == handle_root_response(response)
        version == IF root.ok THEN from_string(Unwrap(response.number))
                   ELSE root
    IN  [requests |-> <<request>>, ret |-> version,
         client |-> [c EXCEPT !.version = IF version.ok
                                          THEN Some(version.val[1]) ELSE None]]

\* A mutated detection: the version is returned and not kept
DetectWithoutCaching(c, response) ==
    LET request == Request(c, "GET", <<>>, None)
        root == handle_root_response(response)
        version == IF root.ok THEN from_string(Unwrap(response.number))
                   ELSE root
    IN  [requests |-> <<request>>, ret |-> version, client |-> c]

\* A mutated detection: the version is kept only when none was held
DetectWriteOnce(c, response) ==
    LET request == Request(c, "GET", <<>>, None)
        root == handle_root_response(response)
        version == IF root.ok THEN from_string(Unwrap(response.number))
                   ELSE root
    IN  [requests |-> <<request>>, ret |-> version,
         client |-> IF version.ok /\ c.version = None
                    THEN [c EXCEPT !.version = Some(version.val[1])]
                    ELSE c]

\* EsClient::detect_version: the result and the client afterwards
detect_version(c, response) ==
    LET request == Request(c, "GET", <<>>, None)
        root == handle_root_response(response)
        version == IF root.ok THEN from_string(Unwrap(response.number))
                   ELSE root
    IN  [requests |-> <<request>>, ret |-> version,
         client |-> IF version.ok
                    THEN [c EXCEPT !.version = Some(version.val[1])]
                    ELSE c]

\* EsClient::search_sql
search_sql(c, query, response) ==
    IF IsSome(c.version) /\ Unwrap(c.version).major < 7
    THEN [requests |-> <<>>,
          ret |-> Err("SQL API requires Elasticsearch 7.x or higher")]
    ELSE post(c, SqlPath, [query |-> query], response)

\* A mutated gate: the minor version is compared whatever the major is
IndexTemplatesByMinorOnly(c, response) ==
    IF IsSome(c.version)
    THEN IF Unwrap(c.version).major >= 7 /\ Unwrap(c.version).minor >= 8
         THEN get(c, IndexTemplatePath, response)
         ELSE get(c, TemplatePath, response)
    ELSE get(c, IndexTemplatePath, response)

\* EsClient::get_index_templates
get_index_templates(c, response) ==
    IF IsSome(c.version)
    THEN LET version == Unwrap(c.version)
         IN  IF version.major >= 8 \/ (version.major = 7 /\ version.minor >= 8)
             THEN get(c, IndexTemplatePath, response)
             ELSE get(c, TemplatePath, response)
    ELSE get(c, IndexTemplatePath, response)

\* A mutated gate: the minor version is compared whatever the major is
ComponentTemplatesByMinorOnly(c, response) ==
    IF /\ IsSome(c.version)
       /\ Unwrap(c.version).major >= 7 /\ Unwrap(c.version).minor >= 8
    THEN get(c, ComponentTemplatePath, response)
    ELSE [requests |-> <<>>,
          ret |-> Err("Component templates require Elasticsearch 7.8 or higher")]

\* EsClient::get_component_templates
get_component_templates(c, response) ==
    LET version == Unwrap(c.version)
    IN  IF /\ IsSome(c.version)
           /\ version.major >= 8 \/ (version.major = 7 /\ version.minor >= 8)
        THEN get(c, ComponentTemplatePath, response)
        ELSE [requests |-> <<>>,
              ret |-> Err("Component templates require Elasticsearch 7.8 or higher")]

\* The addresses and credentials a handler builds its client from:
\* "http://es" with and without trailing slashes
BaseUrls ==
    {<<104, 116, 116, 112, 58, 47, 47, 101, 115>>,
     <<104, 116, 116, 112, 58, 47, 47, 101, 115, 47>>,
     <<104, 116, 116, 112, 58, 47, 47, 101, 115, 47, 47>>}

ClientPasswords == {None, Some(<<112, 97, 115, 115, 49, 50, 51>>)}

ClientIdle ==
    /\ client = None
    /\ apiCall = None

\* A handler builds the client of its request
NewClient ==
    /\ \E base_url \in BaseUrls, username \in Usernames,
          password \in ClientPasswords :
         client' = Some(NewEsClient(base_url, username, password))
    /\ apiCall' = None
    /\ UNCHANGED <<hostVars, sideVars, keyVars, cipherVars, tableVars>>

\* A call of a method records the version the client held, the answer of
\* the remote, the requests sent and the result
Call(op, response, r) ==
    Some([op |-> op, version |-> Unwrap(client).version,
          response |-> response, requests |-> r.requests, ret |-> r.ret])

DetectVersion ==
    /\ IsSome(client)
    /\ \E response \in Responses :
         LET r == detect_version(Unwrap(client), response)
         IN  /\ client' = Some(r.client)
             /\ apiCall' = Call("detect_version", response, r)
    /\ UNCHANGED <<hostVars, sideVars, keyVars, cipherVars, tableVars>>

\* The answers to a request other than the one for the root document
ApiResponses == {r \in Responses : r.number = None}

SearchSql ==
    /\ IsSome(client)
    /\ \E response \in ApiResponses :
         apiCall' = Call("search_sql", response,
                         search_sql(Unwrap(client), "SELECT 1", response))
    /\ UNCHANGED <<hostVars, sideVars, client, keyVars, cipherVars, tableVars>>

GetIndexTemplates ==
    /\ IsSome(client)
    /\ \E response \in ApiResponses :
         apiCall' = Call("get_index_templates", response,
                         get_index_templates(Unwrap(client), response))
    /\ UNCHANGED <<hostVars, sideVars, client, keyVars, cipherVars, tableVars>>

GetComponentTemplates ==
    /\ IsSome(client)
    /\ \E response \in ApiResponses :
         apiCall' = Call("get_component_templates", response,
                         get_component_templates(Unwrap(client), response))
    /\ UNCHANGED <<hostVars, sideVars, client, keyVars, cipherVars, tableVars>>

ClientNext ==
    \/ NewClient
    \/ DetectVersion
    \/ SearchSql
    \/ GetIndexTemplates
    \/ GetComponentTemplates

----------------------------------------------------------------------------
(* A request handler: it reads the password of the active endpoint, builds *)
(* its EsClient and calls the verbs of the client                          *)

\* The paths the handlers ask for: "/_nodes", and a path typed into the
\* console without its slash, "_cat/shards"
Paths == {<<47, 95, 110, 111, 100, 101, 115>>,
          <<95, 99, 97, 116, 47, 115, 104, 97, 114, 100, 115>>}

\* The rows a handler can find active: with or without a username, and
\* with no payload, a payload sealed under the key, or one whose tag was
\* flipped
HandlerRows(key) ==
    LET t == Sealed[key, Entropy(1, NonceLen),
                    <<112, 97, 115, 115, 49, 50, 51>>].val[1]
        raw == b64_decode(t).val[1]
    IN  {Row([name |-> "es", url |-> <<104, 116, 116, 112, 58, 47, 47, 101, 115, 47>>, insecure |-> FALSE],
             username, None, None, stored) :
            username \in Usernames,
            stored \in {None, Some(t),
                        Some(b64_encode([raw EXCEPT ![Len(raw)] = (@ + 1) % 256]))}}

\* A running Database under the first key of the pool, with its table
HandlerInit ==
    /\ keyFile = Some(hex_encode(Entropy(1, KeyLen)))
    /\ keyMode = "0600"
    /\ keyCalls = <<>>
    /\ columns = CurrentColumns
    /\ \E n \in 1 .. MaxEndpoints :
         endpoints \in [1 .. n -> HandlerRows(Entropy(1, KeyLen))]
    /\ revealed = None
    /\ legacyRows = <<>>
    /\ startup = None

\* The opening of a handler: get_endpoint_password, then EsClient::new with
\* the url and username of the row and the password revealed
BuildClient ==
    /\ IsSome(encryption_key)
    /\ \E id \in 1 .. Len(endpoints) :
         LET r == get_endpoint_password(Unwrap(encryption_key), id, endpoints[id])
         IN  /\ revealed' = Some([id |-> id, ret |-> r.ret, logs |-> r.logs])
             /\ client' = Some(NewEsClient(endpoints[id].url,
                                           endpoints[id].username, r.ret))
    /\ apiCall' = None
    /\ UNCHANGED <<hostVars, sideVars, columns, endpoints, legacyRows, startup, cipherVars, keyVars>>

Get ==
    /\ IsSome(client)
    /\ \E path \in Paths, response \in VerbResponses :
         apiCall' = Call("get", response, get(Unwrap(client), path, response))
    /\ UNCHANGED <<hostVars, sideVars, client, keyVars, cipherVars, tableVars>>

Post ==
    /\ IsSome(client)
    /\ \E path \in Paths, response \in VerbResponses :
         apiCall' = Call("post", response,
                         post(Unwrap(client), path, "{}", response))
    /\ UNCHANGED <<hostVars, sideVars, client, keyVars, cipherVars, tableVars>>

Put ==
    /\ IsSome(client)
    /\ \E path \in Paths, response \in VerbResponses :
         apiCall' = Call("put", response,
                         put(Unwrap(client), path, "{}", response))
    /\ UNCHANGED <<hostVars, sideVars, client, keyVars, cipherVars, tableVars>>

Delete ==
    /\ IsSome(client)
    /\ \E path \in Paths, response \in VerbResponses :
         apiCall' = Call("delete", response,
                         delete(Unwrap(client), path, response))
    /\ UNCHANGED <<hostVars, sideVars, client, keyVars, cipherVars, tableVars>>

GetRaw ==
    /\ IsSome(client)
    /\ \E path \in Paths, response \in VerbResponses :
         apiCall' = Call("get_raw", response,
                         get_raw(Unwrap(client), path, response))
    /\ UNCHANGED <<hostVars, sideVars, client, keyVars, cipherVars, tableVars>>

PostRaw ==
    /\ IsSome(client)
    /\ \E path \in Paths, response \in VerbResponses :
         apiCall' = Call("post_raw", response,
                         post_raw(Unwrap(client), path, "{}", response))
    /\ UNCHANGED <<hostVars, sideVars, client, keyVars, cipherVars, tableVars>>

PutRaw ==
    /\ IsSome(client)
    /\ \E path \in Paths, response \in VerbResponses :
         apiCall' = Call("put_raw", response,
                         put_raw(Unwrap(client), path, "{}", response))
    /\ UNCHANGED <<hostVars, sideVars, client, keyVars, cipherVars, tableVars>>

DeleteRaw ==
    /\ IsSome(client)
    /\ \E path \in Paths, response \in VerbResponses :
         apiCall' = Call("delete_raw", response,
                         delete_raw(Unwrap(client), path, response))
    /\ UNCHANGED <<hostVars, sideVars, client, keyVars, cipherVars, tableVars>>

HandlerNext ==
    \/ BuildClient
    \/ Get
    \/ Post
    \/ Put
    \/ Delete
    \/ GetRaw
    \/ PostRaw
    \/ PutRaw
    \/ DeleteRaw

----------------------------------------------------------------------------
(* Directories: src/config/mod.rs, legacy_dir, move_legacy_dir,            *)
(* init_directories                                                        *)

\* A directory is a function from the names in it to its entries; an entry
\* is a file with its content and mode, or a directory
File(data, mode) == [kind |-> "file", data |-> data, mode |-> mode, tree |-> <<>>]

Dir(tree) == [kind |-> "dir", data |-> <<>>, mode |-> "dir", tree |-> tree]

EmptyDir == <<>>

Without(tree, n) == [m \in DOMAIN tree \ {n} |-> tree[m]]

With(tree, n, e) == [m \in DOMAIN tree \cup {n} |-> IF m = n THEN e ELSE tree[m]]

\* get_app_dir: config_dir()/elastic-explorer, as path components
ConfigDir == <<"home", "u", ".config">>

get_app_dir == ConfigDir \o <<"elastic-explorer">>

\* legacy_dir: $HOME/.elastic-explorer, None when HOME is not set
legacy_dir(home) ==
    IF IsSome(home) THEN Some(Unwrap(home) \o <<".elastic-explorer">>) ELSE None

\* What the environment does to the file operations of one start: every
\* rename from the legacy directory fails (it is on another device), copies
\* fail, deletions fail
Environments ==
    [xdev : BOOLEAN, copyOk : BOOLEAN, removeOk : BOOLEAN]

\* fs::rename(src_path, dst_path) succeeds: on one device, and the target is
\* absent, or a file replaced by a file, or an empty directory replaced by a
\* directory
RenameOk(e, dst, n, env) ==
    /\ ~env.xdev
    /\ \/ n \notin DOMAIN dst
       \/ e.kind = "file" /\ dst[n].kind = "file"
       \/ e.kind = "dir" /\ dst[n].kind = "dir" /\ DOMAIN dst[n].tree = {}

\* fs::read_dir of a directory below the root: the names in some fixed order
RECURSIVE ReadDir(_)
ReadDir(tree) ==
    IF DOMAIN tree = {} THEN <<>>
    ELSE LET n == CHOOSE m \in DOMAIN tree : TRUE
         IN  <<n>> \o ReadDir(Without(tree, n))

\* The orders in which fs::read_dir can list a directory
ReadOrders(tree) ==
    {o \in [1 .. Cardinality(DOMAIN tree) -> DOMAIN tree] :
        \A i, j \in DOMAIN o : i # j => o[i] # o[j]}

\* The value of an expression, computed once
The(S) == CHOOSE x \in S : TRUE

\* The body of the loop for a file whose rename has failed: fs::copy, then
\* fs::remove_file, which is not checked
CopyThenRemove(src, dst, n, env) ==
    IF ~env.copyOk \/ (n \in DOMAIN dst /\ dst[n].kind = "dir")
    THEN [ok |-> FALSE, err |-> "Failed to copy", src |-> src, dst |-> dst]
    ELSE [ok |-> TRUE, err |-> "",
          src |-> IF env.removeOk THEN Without(src, n) ELSE src,
          dst |-> With(dst, n, src[n])]

\* fs::create_dir_all(&dst_path).ok(): the target directory is made when
\* nothing has its name; a file of that name stays a file
MadeDir(dst, n) ==
    IF n \in DOMAIN dst THEN dst ELSE With(dst, n, Dir(EmptyDir))

\* The body of the loop for a directory whose rename has failed, once
\* move_legacy_dir on its entries has returned sub: the error is passed on,
\* otherwise fs::remove_dir of the source, which is not checked
AfterSubMove(src, made, n, env, sub) ==
    LET dstAfter == IF made[n].kind = "dir"
                    THEN With(made, n, Dir(sub.dst)) ELSE made
    IN  IF ~sub.ok
        THEN [ok |-> FALSE, err |-> "Failed to move legacy directory",
              src |-> With(src, n, Dir(sub.src)), dst |-> dstAfter]
        ELSE [ok |-> TRUE, err |-> "",
              src |-> IF DOMAIN sub.src = {} /\ env.removeOk
                      THEN Without(src, n) ELSE With(src, n, Dir(sub.src)),
              dst |-> dstAfter]

RECURSIVE move_legacy_dir(_, _, _, _)
RECURSIVE MoveEntry(_, _, _, _)
RECURSIVE MoveWithoutFallback(_, _, _, _)

\* The body of the loop of move_legacy_dir for the entry n: rename, and when
\* the rename fails, the recursion for a directory (under a target that is
\* a file every rename and every copy fails), copy and remove for a file
MoveEntry(src, dst, n, env) ==
    IF RenameOk(src[n], dst, n, env)
    THEN [ok |-> TRUE, err |-> "", src |-> Without(src, n),
          dst |-> With(dst, n, src[n])]
    ELSE IF src[n].kind = "dir"
    THEN The({AfterSubMove(src, made, n, env, sub) :
              made \in {MadeDir(dst, n)},
              sub \in {IF MadeDir(dst, n)[n].kind = "dir"
                       THEN move_legacy_dir(src[n].tree, MadeDir(dst, n)[n].tree,
                                            ReadDir(src[n].tree), env)
                       ELSE [ok |-> DOMAIN src[n].tree = {}, err |-> "",
                             src |-> src[n].tree, dst |-> EmptyDir]}})
    ELSE CopyThenRemove(src, dst, n, env)

\* A mutated move: an entry whose rename fails is left where it is, and the
\* move still succeeds
MoveWithoutFallback(src, dst, names, env) ==
    IF names = <<>> THEN [ok |-> TRUE, err |-> "", src |-> src, dst |-> dst]
    ELSE IF RenameOk(src[Head(names)], dst, Head(names), env)
    THEN The({MoveWithoutFallback(r.src, r.dst, Tail(names), env) :
              r \in {MoveEntry(src, dst, Head(names), env)}})
    ELSE MoveWithoutFallback(src, dst, Tail(names), env)

\* The loop of move_legacy_dir over the entries of src in the order read;
\* the first error ends it.  Returns what src and dst hold afterwards.
move_legacy_dir(src, dst, names, env) ==
    IF names = <<>> THEN [ok |-> TRUE, err |-> "", src |-> src, dst |-> dst]
    ELSE The({IF ~r.ok THEN r
              ELSE move_legacy_dir(r.src, r.dst, Tail(names), env) :
              r \in {MoveEntry(src, dst, Head(names), env)}})

\* db.key of the application directory, as load_or_create_key sees it
KeyFileOf(app) ==
    IF IsSome(app) /\ "db.key" \in DOMAIN Unwrap(app)
    THEN Some(Unwrap(app)["db.key"].data) ELSE None

KeyModeOf(app) ==
    IF IsSome(app) /\ "db.key" \in DOMAIN Unwrap(app)
    THEN Unwrap(app)["db.key"].mode ELSE "none"

\* The end of init_directories, on the disk the relocation left and with
\* the data directory made: load_or_create_key has returned k
AfterKey(made, k, relocates) ==
    [ret |-> IF k.ret.ok THEN Ok(TRUE) ELSE k.ret,
     disk |-> IF k.wrote
              THEN [made EXCEPT !.app = Some(With(Unwrap(made.app), "db.key",
                                                 File(Unwrap(k.file), k.mode)))]
              ELSE made,
     key |-> Some([ret |-> k.ret, wrote |-> k.wrote,
                   before |-> KeyFileOf(made.app), after |-> k.file]),
     relocated |-> relocates]

\* create_dir_all(&data_dir) when the data directory does not exist
DataDirMade(d) ==
    IF IsSome(d.app) THEN d ELSE [d EXCEPT !.app = Some(EmptyDir)]

\* init_directories once move_legacy_dir has returned m: its error is passed
\* on; the legacy root is removed when it is empty, and a failure of that is
\* passed on
AfterMove(d, m, relocates, env, newKey, permsOk) ==
    LET moved == IF relocates
                 THEN [legacy |-> Some(m.src), app |-> Some(m.dst)] ELSE d
        emptied == relocates /\ DOMAIN m.src = {}
    IN  IF ~m.ok
        THEN [ret |-> Err(m.err), disk |-> moved, key |-> None,
              relocated |-> relocates]
        ELSE IF emptied /\ ~env.removeOk
        THEN [ret |-> Err("Failed to remove legacy config directory"),
              disk |-> moved, key |-> None, relocated |-> relocates]
        ELSE The({AfterKey(made, k, relocates) :
                  made \in {DataDirMade(IF emptied
                                        THEN [moved EXCEPT !.legacy = None]
                                        ELSE moved)},
                  k \in {load_or_create_key(
                             KeyFileOf(DataDirMade(moved).app),
                             KeyModeOf(DataDirMade(moved).app),
                             newKey, permsOk)}})

\* A mutated init_directories: a legacy directory that is not there is an
\* error
InitDirectoriesNeedingLegacy(d, home, order, env, newKey, permsOk) ==
    IF IsSome(legacy_dir(home)) /\ IsSome(d.legacy)
    THEN The({AfterMove(d, m, TRUE, env, newKey, permsOk) :
              m \in {move_legacy_dir(
                         Unwrap(d.legacy),
                         IF IsSome(d.app) THEN Unwrap(d.app) ELSE EmptyDir,
                         order, env)}})
    ELSE [ret |-> Err("Failed to read legacy config directory"), disk |-> d,
          key |-> None, relocated |-> TRUE]

\* init_directories: the relocation of the legacy directory when it exists
\* and is not the application directory, the removal of the legacy root
\* when it is empty afterwards, the creation of the data directory, and
\* load_or_create_key.  Returns the result, the disk afterwards and the call
\* of load_or_create_key when it got that far.
init_directories(d, home, order, env, newKey, permsOk) ==
    LET relocates == /\ IsSome(legacy_dir(home))
                     /\ IsSome(d.legacy)
                     /\ Unwrap(legacy_dir(home)) # get_app_dir
    IN  The({AfterMove(d, m, relocates, env, newKey, permsOk) :
             m \in {IF relocates
                    THEN move_legacy_dir(
                             Unwrap(d.legacy),
                             IF IsSome(d.app) THEN Unwrap(d.app) ELSE EmptyDir,
                             order, env)
                    ELSE [ok |-> TRUE, err |-> "", src |-> <<>>, dst |-> <<>>]}})

----------------------------------------------------------------------------
(* main: init_directories, Database::new, the listener, the server         *)

\* A mutated main: a step that failed is followed like one that succeeded
MainIgnoringErrors(pc, ok) ==
    IF pc = "init_directories" THEN "database_new"
    ELSE IF pc = "database_new" THEN "bind"
    ELSE IF pc = "bind" THEN "serve"
    ELSE pc

\* main: the step that follows a step, by its result
main(pc, ok) ==
    IF ~ok THEN "aborted"
    ELSE IF pc = "init_directories" THEN "database_new"
    ELSE IF pc = "database_new" THEN "bind"
    ELSE IF pc = "bind" THEN "serve"
    ELSE pc

\* What a legacy directory left by an older version can hold: nothing, its
\* key and its database, these and its logs, or an empty logs directory
LegacyTrees ==
    LET key == "db.key" :> File(hex_encode(Entropy(1, KeyLen)), "0600")
        db == "elastic-explorer.db" :> File(<<1>>, "default")
    IN  {EmptyDir,
         key @@ db,
         key @@ db @@ ("logs" :> Dir("app.log" :> File(<<3>>, "default"))),
         "logs" :> Dir(EmptyDir)}

\* What the application directory can hold when the program starts: nothing,
\* the key and the database of an earlier start, these and logs, a file
\* named logs, or a key file that was emptied
AppTrees ==
    LET key == "db.key" :> File(hex_encode(Entropy(2, KeyLen)), "0600")
        db == "elastic-explorer.db" :> File(<<2>>, "default")
    IN  {EmptyDir,
         key @@ db,
         key @@ db @@ ("logs" :> Dir("app.log" :> File(<<4>>, "default"))),
         "logs" :> File(<<5>>, "default"),
         "db.key" :> File(<<>>, "0600")}

\* The key the entropy source delivers when a start has to make one
FreshKey == Entropy(3, KeyLen)

\* No disk of interest and no main
HostIdle ==
    /\ disk = [legacy |-> None, app |-> None]
    /\ boot = [pc |-> "none", starts |-> 0, dirs |-> None, served |-> 0]

\* The program is started for the first time on some disk
HostInit ==
    /\ disk \in [legacy : {None} \cup {Some(t) : t \in LegacyTrees},
                 app : {None} \cup {Some(t) : t \in AppTrees}]
    /\ boot = [pc |-> "init_directories", starts |-> 1, dirs |-> None,
               served |-> 0]
    /\ keyFile = KeyFileOf(disk.app)
    /\ keyMode = KeyModeOf(disk.app)
    /\ keyCalls = <<>>

\* config::init_directories()?
InitDirectories ==
    /\ boot.pc = "init_directories"
    /\ \E home \in {None, Some(<<"home", "u">>)}, env \in Environments,
          newKey \in {FreshKey}, permsOk \in BOOLEAN,
          order \in ReadOrders(IF IsSome(disk.legacy) THEN Unwrap(disk.legacy)
                               ELSE EmptyDir) :
         LET r == init_directories(disk, home, order, env, newKey, permsOk)
         IN  /\ disk' = r.disk
             /\ keyFile' = KeyFileOf(r.disk.app)
             /\ keyMode' = KeyModeOf(r.disk.app)
             /\ keyCalls' = IF IsSome(r.key) THEN Append(keyCalls, Unwrap(r.key))
                            ELSE keyCalls
             /\ boot' = [boot EXCEPT
                    !.pc = main(boot.pc, r.ret.ok),
                    !.dirs = Some([ret |-> r.ret, relocated |-> r.relocated,
                                   before |-> disk, after |-> r.disk])]
    /\ UNCHANGED <<sideVars, cipherVars, tableVars, clientVars>>

\* db::Database::new().await?: the database file is created when missing
MainDatabaseNew ==
    /\ boot.pc = "database_new"
    /\ DatabaseNewStep
    /\ boot' = [boot EXCEPT !.pc = main(boot.pc, IsSome(encryption_key'))]
    /\ disk' = [disk EXCEPT !.app =
            LET app == Unwrap(disk.app)
                made == IF "elastic-explorer.db" \in DOMAIN app THEN app
                        ELSE With(app, "elastic-explorer.db", File(<<>>, "default"))
            IN  Some(IF IsSome(keyFile')
                     THEN With(made, "db.key", File(Unwrap(keyFile'), keyMode'))
                     ELSE made)]
    /\ UNCHANGED sideVars

\* TcpListener::bind(&addr).await?
Bind ==
    /\ boot.pc = "bind"
    /\ \E bound \in BOOLEAN : boot' = [boot EXCEPT !.pc = main(boot.pc, bound)]
    /\ UNCHANGED <<sideVars, disk, keyVars, cipherVars, tableVars, clientVars>>

\* axum::serve: a request is accepted and its handler writes the database
Serve ==
    /\ boot.pc = "serve"
    /\ boot.served < MaxServed
    /\ boot' = [boot EXCEPT !.served = @ + 1]
    /\ disk' = [disk EXCEPT !.app =
            Some(With(Unwrap(disk.app), "elastic-explorer.db",
                      File(<<9>>, "default")))]
    /\ UNCHANGED <<sideVars, keyVars, cipherVars, tableVars, clientVars>>

\* The process ends, and the program is started again on the disk it left
Restart ==
    /\ boot.pc \in {"serve", "aborted"}
    /\ boot.starts < MaxStarts
    /\ boot' = [pc |-> "init_directories", starts |-> boot.starts + 1,
                dirs |-> None, served |-> 0]
    /\ keyCalls' = <<>>
    /\ encryption_key' = None
    /\ startup' = None
    /\ revealed' = None
    /\ UNCHANGED <<sideVars, disk, keyFile, keyMode, encCalls, decCall, columns,
                   endpoints, legacyRows, clientVars>>

HostNext ==
    \/ InitDirectories
    \/ MainDatabaseNew
    \/ Bind
    \/ Serve
    \/ Restart

----------------------------------------------------------------------------
(* What the other parts of the program hold while one part is followed *)

VaultLogIdle == vaultLog = [call |-> None, supplied |-> <<>>]

RaceIdle == procs = <<>>

ConsoleIdle == history = <<>> /\ savers = <<>>

SessionIdle == cookie = None /\ deleted = {} /\ lookup = None

ShardIdle == matchCall = None

SideIdle == VaultLogIdle /\ RaceIdle /\ ConsoleIdle /\ SessionIdle /\ ShardIdle

----------------------------------------------------------------------------
(* Specifications *)

\* load_or_create_key over the key files a start can find
InitKey == KeyInit /\ CipherIdle /\ TableInit /\ ClientIdle /\ HostIdle /\ SideIdle

SpecKey == InitKey /\ [][KeyNext]_vars

\* encrypt_password and decrypt_password under every key of the pool
InitCipher == KeyReady /\ CipherInit /\ TableInit /\ ClientIdle /\ HostIdle /\ SideIdle

SpecCipher == InitCipher /\ [][CipherNext]_vars

\* the endpoints table of a running Database
InitVault == KeyReady /\ CipherInit /\ TableInit /\ ClientIdle /\ HostIdle /\ SideIdle

SpecVault == InitVault /\ [][VaultNext]_vars

\* the methods of one EsClient after another, against any remote
InitClient == KeyAbsent /\ CipherIdle /\ TableInit /\ ClientIdle /\ HostIdle /\ SideIdle

SpecClient == InitClient /\ [][ClientNext]_vars

\* a start of the program on a database of any schema version
InitMigration == MigrationInit /\ CipherIdle /\ ClientIdle /\ HostIdle /\ SideIdle

SpecMigration == InitMigration /\ [][MigrationNext]_vars

\* the handlers' use of a client built from the active endpoint
InitHandler == HandlerInit /\ CipherInit /\ ClientIdle /\ HostIdle /\ SideIdle

SpecHandler == InitHandler /\ [][HandlerNext]_vars

\* the starts of the program on a disk with or without a legacy directory
InitHost == HostInit /\ CipherIdle /\ TableInit /\ ClientIdle /\ SideIdle

SpecHost == InitHost /\ [][HostNext]_vars

\* the writes of the endpoint handlers to a table that nothing else touches
EndpointsNext ==
    \/ PostEndpoint
    \/ PutEndpoint

InitEndpoints ==
    KeyReady /\ CipherInit /\ TableInit /\ ClientIdle /\ HostIdle /\ SideIdle

SpecEndpoints == InitEndpoints /\ [][EndpointsNext]_vars

----------------------------------------------------------------------------
(* The console history: src/db/mod.rs save_console_history, called by      *)
(* handlers/console.rs execute_request. Requests are served concurrently   *)
(* on a pool of connections, and the SELECT and the UPDATE or INSERT of    *)
(* one call are two statements outside any transaction.                    *)

otherThanConsole ==
    <<keyVars, cipherVars, tableVars, clientVars, hostVars, vaultLog,
      raceVars, sessionVars, shardVars>>

\* The queries the console sends, with what the remote service answered:
\* a request without a body is stored with body NULL
ConsoleEntries ==
    {[endpoint_id |-> 1, method |-> "GET", path |-> "/_cat/indices",
      body |-> None, response_status |-> st,
      response_body |-> IF st = 200 THEN "green" ELSE "Error"] :
        st \in {200, 500}}
    \cup
    {[endpoint_id |-> 1, method |-> "GET", path |-> "/_search",
      body |-> Some("{}"), response_status |-> 200,
      response_body |-> "{\"hits\":[]}"]}

\* WHERE endpoint_id = ? AND method = ? AND path = ?
\*   AND (body IS ? OR (body IS NULL AND ? IS NULL))
SameQuery(row, entry) ==
    /\ row.endpoint_id = entry.endpoint_id
    /\ row.method = entry.method
    /\ row.path = entry.path
    /\ (row.body = entry.body \/ (row.body = None /\ entry.body = None))

\* The ids the SELECT can deliver
Existing(rows, entry) == {id \in 1 .. Len(rows) : SameQuery(rows[id], entry)}

\* The record an INSERT writes, created_at being the request that wrote it
HistoryRow(entry, at) ==
    [endpoint_id |-> entry.endpoint_id, method |-> entry.method,
     path |-> entry.path, body |-> entry.body,
     response_status |-> entry.response_status,
     response_body |-> entry.response_body, created_at |-> at]

\* execute_request has the answer of the remote service and calls
\* save_console_history
ExecuteRequest ==
    /\ Len(savers) < MaxSaves
    /\ \E entry \in ConsoleEntries :
         savers' = Append(savers, [pc |-> "select", entry |-> entry,
                                   existing |-> None, ret |-> None])
    /\ UNCHANGED <<history, otherThanConsole>>

\* The SELECT ... LIMIT 1 of one call
SaveSelect ==
    /\ \E i \in 1 .. Len(savers) :
         /\ savers[i].pc = "select"
         /\ \E found \in IF Existing(history, savers[i].entry) = {}
                         THEN {None}
                         ELSE {Some(id) : id \in Existing(history, savers[i].entry)} :
              savers' = [savers EXCEPT ![i].pc = "write", ![i].existing = found]
    /\ UNCHANGED <<history, otherThanConsole>>

\* The UPDATE of the record found, or the INSERT of a new one. The schema of
\* the table is not part of the sources: the INSERT of a query that is
\* already stored succeeds, or a constraint rejects it
SaveWrite ==
    /\ \E i \in 1 .. Len(savers) :
         /\ savers[i].pc = "write"
         /\ LET entry == savers[i].entry
            IN  IF IsSome(savers[i].existing)
                THEN LET id == Unwrap(savers[i].existing)
                     IN  /\ history' =
                              [history EXCEPT
                                  ![id].response_status = entry.response_status,
                                  ![id].response_body = entry.response_body,
                                  ![id].created_at = i]
                         /\ savers' = [savers EXCEPT ![i].pc = "done",
                                                     ![i].ret = Some(Ok(id))]
                ELSE \/ /\ history' = Append(history, HistoryRow(entry, i))
                        /\ savers' = [savers EXCEPT
                                         ![i].pc = "done",
                                         ![i].ret = Some(Ok(Len(history) + 1))]
                     \/ /\ Existing(history, entry) # {}
                        /\ history' = history
                        /\ savers' =
                             [savers EXCEPT
                                 ![i].pc = "done",
                                 ![i].ret = Some(Err("Failed to save console history"))]
    /\ UNCHANGED otherThanConsole

ConsoleNext ==
    \/ ExecuteRequest
    \/ SaveSelect
    \/ SaveWrite

InitConsole ==
    KeyAbsent /\ CipherIdle /\ TableInit /\ ClientIdle /\ HostIdle /\ SideIdle

SpecConsole == InitConsole /\ [][ConsoleNext]_vars

----------------------------------------------------------------------------
(* Several processes started on one application directory that holds no    *)
(* key file. Each runs main: load_or_create_key in init_directories, its   *)
(* result dropped, then load_or_create_key in Database::new, its result    *)
(* held as encryption_key. The system calls of one load_or_create_key --   *)
(* exists, read_to_string, File::create, write_all, set_permissions -- are *)
(* steps that the calls of another process can come between.               *)

otherThanRace ==
    <<keyCalls, cipherVars, tableVars, clientVars, hostVars, vaultLog,
      consoleVars, sessionVars, shardVars>>

\* rng.try_fill_bytes in process p: every process draws another key
KeyOf(p) == Entropy(p, KeyLen)

\* The process p after the load_or_create_key it is in has returned r
Returned(proc, r) ==
    IF ~r.ok
    THEN [proc EXCEPT !.stage = "aborted", !.pc = "-", !.err = r.err]
    ELSE IF proc.stage = "init_directories"
         THEN [proc EXCEPT !.stage = "database_new", !.pc = "exists"]
         ELSE [proc EXCEPT !.stage = "serving", !.pc = "-",
                           !.held = Some(r.val[1])]

\* How many processes have written their key so far
Written(ps) == Cardinality({q \in DOMAIN ps : ps[q].wrote > 0})

\* if key_path.exists()
KeyExists ==
    /\ \E p \in DOMAIN procs :
         /\ procs[p].pc = "exists"
         /\ procs' = [procs EXCEPT
                         ![p].pc = IF IsSome(keyFile) THEN "read" ELSE "create"]
    /\ UNCHANGED <<keyFile, keyMode, otherThanRace>>

\* The branch of a key file that exists: read_to_string, hex::decode, the
\* length check, return
ReadKey ==
    /\ \E p \in DOMAIN procs :
         /\ procs[p].pc = "read"
         /\ procs' = [procs EXCEPT
                         ![p] = Returned(procs[p],
                                    load_or_create_key(keyFile, keyMode,
                                                       KeyOf(p), TRUE).ret)]
    /\ UNCHANGED <<keyFile, keyMode, otherThanRace>>

\* fs::File::create: the file is created, or truncated when another process
\* has created it since the exists test; a file that is there keeps its mode
CreateKeyFile ==
    /\ \E p \in DOMAIN procs :
         /\ procs[p].pc = "create"
         /\ procs' = [procs EXCEPT ![p].pc = "write"]
    /\ keyFile' = Some(<<>>)
    /\ keyMode' = (IF IsSome(keyFile) THEN keyMode ELSE "default")
    /\ UNCHANGED otherThanRace

\* file.write_all(key_hex.as_bytes()) at the start of the file
WriteKey ==
    /\ \E p \in DOMAIN procs :
         /\ procs[p].pc = "write"
         /\ procs' = [procs EXCEPT ![p].pc = "perms",
                                   ![p].wrote = Written(procs) + 1]
         /\ keyFile' = Some(hex_encode(KeyOf(p)))
    /\ UNCHANGED <<keyMode, otherThanRace>>

\* fs::set_permissions(&key_path, 0o600)?, then Ok(key.to_vec())
SetKeyPermissions ==
    /\ \E p \in DOMAIN procs, permsOk \in BOOLEAN :
         /\ procs[p].pc = "perms"
         /\ procs' = [procs EXCEPT
                         ![p] = Returned(procs[p],
                                    IF permsOk THEN Ok(KeyOf(p))
                                    ELSE Err("Failed to set encryption key permissions"))]
         /\ keyMode' = (IF permsOk THEN "0600" ELSE keyMode)
    /\ UNCHANGED <<keyFile, otherThanRace>>

RaceNext ==
    \/ KeyExists
    \/ ReadKey
    \/ CreateKeyFile
    \/ WriteKey
    \/ SetKeyPermissions

RaceInit ==
    procs = [p \in 1 .. NumProcs |->
                [stage |-> "init_directories", pc |-> "exists", wrote |-> 0,
                 held |-> None, err |-> ""]]

InitRace ==
    /\ KeyAbsent /\ CipherIdle /\ TableInit /\ ClientIdle /\ HostIdle
    /\ VaultLogIdle /\ RaceInit /\ ConsoleIdle /\ SessionIdle /\ ShardIdle

SpecRace == InitRace /\ [][RaceNext]_vars

----------------------------------------------------------------------------
(* The active endpoint of a browser session: src/handlers/endpoints.rs     *)
(* select_endpoint and get_active_endpoint over Database::get_endpoint and *)
(* Database::delete_endpoint. The cookie active_endpoint_id is kept by the *)
(* browser and outlives the row it names. The id of a row is its identity: *)
(* a deleted row leaves its place in endpoints, marked in deleted.         *)

otherThanSession ==
    <<keyVars, cipherVars, columns, revealed, legacyRows, startup, clientVars,
      hostVars, vaultLog, raceVars, consoleVars, shardVars>>

\* The ids a request path or a cookie can name: those of the table and one
\* that no row ever had
NamedIds == 1 .. (MaxEndpoints + 1)

\* id.to_string() and value().parse::<i64>()
IdText(id) == ToString(id)
ParseId(text) ==
    IF \E n \in NamedIds : ToString(n) = text
    THEN Some(CHOOSE n \in NamedIds : ToString(n) = text)
    ELSE None

\* A mutated lookup: the row is delivered although it was deleted
GetEndpointIgnoringDeletes(rows, gone, id) ==
    IF id \in 1 .. Len(rows) THEN Some(rows[id]) ELSE None

\* Database::get_endpoint: SELECT * FROM endpoints WHERE id = ?
get_endpoint(rows, gone, id) ==
    IF id \in 1 .. Len(rows) /\ id \notin gone THEN Some(rows[id]) ELSE None

\* get_active_endpoint: the row the cookie names, if the cookie is there,
\* holds a number and the row exists
get_active_endpoint(rows, gone, jar) ==
    IF jar = None THEN None
    ELSE IF ParseId(Unwrap(jar)) = None THEN None
    ELSE get_endpoint(rows, gone, Unwrap(ParseId(Unwrap(jar))))

\* select_endpoint: 404 and the jar as it was when no row has the id, else
\* the jar with the cookie set and a redirect
select_endpoint(rows, gone, jar, id) ==
    IF get_endpoint(rows, gone, id) = None
    THEN [status |-> 404, jar |-> jar]
    ELSE [status |-> 303, jar |-> Some(IdText(id))]

\* Database::delete_endpoint: DELETE FROM endpoints WHERE id = ?
DeleteEndpoint ==
    /\ \E id \in NamedIds :
         /\ deleted' = deleted \cup ({id} \cap (1 .. Len(endpoints)))
         /\ lookup' = Some([op |-> "delete_endpoint", id |-> id,
                            gone |-> FALSE, status |-> 200, found |-> None])
    /\ UNCHANGED <<cookie, endpoints, otherThanSession>>

\* POST /endpoints/:id/select
SelectEndpoint ==
    /\ \E id \in NamedIds :
         LET r == select_endpoint(endpoints, deleted, cookie, id)
         IN  /\ cookie' = r.jar
             /\ lookup' = Some([op |-> "select_endpoint", id |-> id,
                                gone |-> id \notin 1 .. Len(endpoints)
                                         \/ id \in deleted,
                                status |-> r.status, found |-> None])
    /\ UNCHANGED <<deleted, endpoints, otherThanSession>>

\* Any handler that asks for the active endpoint before it calls the remote
\* service
ActiveEndpoint ==
    /\ lookup' = Some([op |-> "get_active_endpoint",
                       id |-> IF cookie = None THEN 0
                              ELSE Unwrap(ParseId(Unwrap(cookie))),
                       gone |-> /\ cookie # None
                                /\ Unwrap(ParseId(Unwrap(cookie))) \in deleted,
                       status |-> 200,
                       found |-> get_active_endpoint(endpoints, deleted, cookie)])
    /\ UNCHANGED <<cookie, deleted, endpoints, otherThanSession>>

\* Database::create_endpoint while the session goes on
SessionCreate ==
    /\ IsSome(encryption_key)
    /\ Len(endpoints) < MaxEndpoints
    /\ \E form \in EndpointForms, nonce \in NoncePool :
         endpoints' = create_endpoint(Unwrap(encryption_key), endpoints,
                                      form, nonce)
    /\ UNCHANGED <<sessionVars, otherThanSession>>

SessionNext ==
    \/ SessionCreate
    \/ DeleteEndpoint
    \/ SelectEndpoint
    \/ ActiveEndpoint

InitSession ==
    KeyReady /\ CipherInit /\ TableInit /\ ClientIdle /\ HostIdle /\ SideIdle

SpecSession == InitSession /\ [][SessionNext]_vars

----------------------------------------------------------------------------
(* The index filter of the shards page: src/handlers/shards.rs             *)
(* matches_pattern, called by load_shards_data. Texts are sequences of     *)
(* characters.                                                             *)

otherThanShards ==
    <<keyVars, cipherVars, tableVars, clientVars, hostVars, vaultLog,
      raceVars, consoleVars, sessionVars>>

RECURSIVE TextsOver(_, _)
\* The texts of up to n characters of an alphabet
TextsOver(alphabet, n) ==
    IF n = 0 THEN {<<>>}
    ELSE LET shorter == TextsOver(alphabet, n - 1)
         IN  shorter \cup {Append(t, c) : t \in shorter, c \in alphabet}

IndexNames == TextsOver({"a", "b"}, MaxNameLen)
Patterns == TextsOver({"a", "b", "*"}, MaxNameLen)

RECURSIVE Split(_, _)
\* str::split(sep): the parts between the separators, empty ones included
Split(text, sep) ==
    IF \A i \in 1 .. Len(text) : text[i] # sep THEN <<text>>
    ELSE LET at == CHOOSE i \in 1 .. Len(text) :
                       text[i] = sep /\ \A j \in 1 .. (i - 1) : text[j] # sep
         IN  <<SubSeq(text, 1, at - 1)>>
             \o Split(SubSeq(text, at + 1, Len(text)), sep)

\* str::starts_with and str::ends_with
StartsWith(text, part) ==
    Len(part) <= Len(text) /\ SubSeq(text, 1, Len(part)) = part
EndsWith(text, part) ==
    Len(part) <= Len(text)
        /\ SubSeq(text, Len(text) - Len(part) + 1, Len(text)) = part

\* text[from..].find(part): the offsets at which part is found
Finds(text, from, part) ==
    {pos \in 0 .. (Len(text) - from - Len(part)) :
        SubSeq(text, from + pos + 1, from + pos + Len(part)) = part}

Least(S) == CHOOSE x \in S : \A y \in S : x <= y

RECURSIVE MatchParts(_, _, _, _, _)
\* The loop of matches_pattern from part i (counted from 0) on
MatchParts(index_name, pattern, parts, i, current_pos) ==
    IF i >= Len(parts) THEN TRUE
    ELSE LET part == parts[i + 1]
         IN  IF part = <<>>
             THEN MatchParts(index_name, pattern, parts, i + 1, current_pos)
             ELSE IF i = 0 /\ ~StartsWith(pattern, <<"*">>)
             THEN IF ~StartsWith(index_name, part) THEN FALSE
                  ELSE MatchParts(index_name, pattern, parts, i + 1, Len(part))
             ELSE IF i = Len(parts) - 1 /\ ~EndsWith(pattern, <<"*">>)
             THEN EndsWith(index_name, part)
             ELSE IF Finds(index_name, current_pos, part) = {} THEN FALSE
             ELSE MatchParts(index_name, pattern, parts, i + 1,
                             current_pos
                                 + Least(Finds(index_name, current_pos, part))
                                 + Len(part))

\* matches_pattern(index_name, pattern)
matches_pattern(index_name, pattern) ==
    LET parts == Split(pattern, "*")
    IN  IF parts = <<>> THEN index_name = pattern
        ELSE MatchParts(index_name, pattern, parts, 0, 0)

RECURSIVE Wildcard(_, _)
\* Wildcard matching of the whole name: '*' stands for any sequence of
\* characters, every other character for itself
Wildcard(name, pattern) ==
    IF pattern = <<>> THEN name = <<>>
    ELSE IF Head(pattern) = "*"
         THEN \E k \in 0 .. Len(name) :
                  Wildcard(SubSeq(name, k + 1, Len(name)), Tail(pattern))
         ELSE /\ name # <<>>
              /\ Head(name) = Head(pattern)
              /\ Wildcard(Tail(name), Tail(pattern))

\* load_shards_data meets a shard of an index while the page filters by a
\* pattern: the shard is kept when the pattern is "*" or empty or matches
LoadShardsData ==
    /\ \E index_name \in IndexNames, pattern \in Patterns :
         matchCall' =
            Some([index_name |-> index_name, pattern |-> pattern,
                  matched |-> matches_pattern(index_name, pattern),
                  kept |-> ~(/\ pattern # <<"*">>
                             /\ pattern # <<>>
                             /\ ~matches_pattern(index_name, pattern))])
    /\ UNCHANGED otherThanShards

ShardsNext == LoadShardsData

InitShards ==
    KeyAbsent /\ CipherIdle /\ TableInit /\ ClientIdle /\ HostIdle /\ SideIdle

SpecShards == InitShards /\ [][ShardsNext]_vars

----------------------------------------------------------------------------
(* Properties of KeyManager, checked under SpecKey *)

\* The bytes an existing key file decodes to: None when the file is absent,
\* is not text or is not hex
DecodedKeyFile(file) ==
    IF IsSome(file) /\ IsUtf8(Unwrap(file)) /\ hex_decode(trim(Unwrap(file))).ok
    THEN Some(hex_decode(trim(Unwrap(file))).val[1])
    ELSE None

\* C5: a call of load_or_create_key that finds a key file whose hex-decoded
\* content is not exactly 32 bytes returns the error "Encryption key must be
\* 32 bytes", returns no key, writes nothing and leaves the file as it was.
C5_WrongLengthRejected ==
    \A i \in 1 .. Len(keyCalls) :
        LET c == keyCalls[i]
            d == DecodedKeyFile(c.before)
        IN  (IsSome(d) /\ Len(Unwrap(d)) # KeyLen) =>
                /\ c.ret = Err("Encryption key must be 32 bytes")
                /\ ~c.wrote
                /\ c.after = c.before

\* C5 witness: the first call found a key file of 33 decoded bytes, returned
\* an error and left the file in place.
C5_Witness ==
    /\ Len(keyCalls) >= 1
    /\ IsSome(DecodedKeyFile(keyCalls[1].before))
    /\ Len(Unwrap(DecodedKeyFile(keyCalls[1].before))) = KeyLen + 1
    /\ ~keyCalls[1].ret.ok
    /\ keyFile = keyCalls[1].before

----------------------------------------------------------------------------
(* Properties of CredentialCipher, checked under SpecCipher *)

\* Why a stored text does not open under a key, decided step by step from
\* the base64 decoding, the length and the AEAD
NotBase64(t) == ~b64_decode(t).ok

TooShort(t) == b64_decode(t).ok /\ Len(b64_decode(t).val[1]) < NonceLen

Opening(key, t) ==
    LET raw == b64_decode(t).val[1]
    IN  aead_decrypt(key, SubSeq(raw, 1, NonceLen),
                     SubSeq(raw, NonceLen + 1, Len(raw)))

TagFails(key, t) ==
    b64_decode(t).ok /\ ~TooShort(t) /\ ~Opening(key, t).ok

NotText(key, t) ==
    /\ b64_decode(t).ok /\ ~TooShort(t)
    /\ Opening(key, t).ok
    /\ ~IsUtf8(Opening(key, t).val[1])

\* C2: whenever decrypt_password is applied to a payload that an
\* encrypt_password call on the same Database returned, it returns exactly
\* the password that call was given.
C2_RoundTrip ==
    IsSome(decCall) =>
        \A i \in 1 .. Len(encCalls) :
            encCalls[i].ret = Ok(Unwrap(decCall).input) =>
                Unwrap(decCall).ret = Ok(encCalls[i].password)

\* C2 witness: a payload sealing the two-byte password "é" was decrypted
\* and gave it back.
C2_Witness ==
    /\ IsSome(decCall)
    /\ Len(encCalls) >= 1
    /\ LatestCall.password = <<195, 169>>
    /\ LatestCall.ret = Ok(Unwrap(decCall).input)
    /\ Unwrap(decCall).ret = Ok(<<195, 169>>)

\* C3 as stated: no two encrypt_password calls under one key return the same
\* payload or use the same nonce.
C3_NeverRepeats ==
    \A i, j \in 1 .. Len(encCalls) :
        i < j => /\ encCalls[i].ret # encCalls[j].ret
                 /\ encCalls[i].nonce # encCalls[j].nonce

\* C3 amended: every payload starts with the nonce the entropy source
\* delivered for that call, so two calls return the same payload exactly
\* when the source delivered the same nonce and the password was the same;
\* calls with different nonces return different payloads even for the same
\* password.
C3_PayloadCarriesNonce ==
    \A i, j \in 1 .. Len(encCalls) :
        /\ encCalls[i].ret.ok
        /\ SubSeq(b64_decode(encCalls[i].ret.val[1]).val[1], 1, NonceLen)
              = encCalls[i].nonce
        /\ (encCalls[i].ret = encCalls[j].ret) <=>
              (/\ encCalls[i].nonce = encCalls[j].nonce
               /\ encCalls[i].password = encCalls[j].password)

\* C3 witness: two calls sealed the same password under different nonces
\* and returned different payloads.
C3_Witness ==
    /\ Len(encCalls) >= 2
    /\ encCalls[1].password = encCalls[2].password
    /\ encCalls[1].nonce # encCalls[2].nonce
    /\ encCalls[1].ret # encCalls[2].ret

\* The error decrypt_password returns on a payload whose tag was flipped,
\* and on a text that is not base64
TagFailureError ==
    LET k == Entropy(1, KeyLen)
        raw == b64_decode(encrypt_password(k, Entropy(1, NonceLen), <<97>>).val[1]).val[1]
    IN  decrypt_password(k, b64_encode([raw EXCEPT ![Len(raw)] = (@ + 1) % 256]))

DecodeFailureError == decrypt_password(Entropy(1, KeyLen), <<42>>)

----------------------------------------------------------------------------
(* Properties of CredentialVault, checked under SpecVault *)

\* C1: get_endpoint_password returns None when the row holds no payload,
\* and equally when the payload is not base64, is shorter than 12 bytes,
\* fails tag verification or decrypts to bytes that are not UTF-8; in each
\* of these failures it logs a warning; what it returns is always an Option
\* of a text, None or the decrypted password.
C1_RevealFailsClosed ==
    IsSome(revealed) =>
        LET call == Unwrap(revealed)
            key == Unwrap(encryption_key)
            stored == endpoints[call.id].password_encrypted
            t == Unwrap(stored)
            undecryptable ==
                /\ IsSome(stored)
                /\ \/ NotBase64(t)
                   \/ TooShort(t)
                   \/ TagFails(key, t)
                   \/ NotText(key, t)
        IN  /\ stored = None => call.ret = None
            /\ undecryptable =>
                  /\ call.ret = None
                  /\ \E n \in 1 .. Len(call.logs) :
                        /\ call.logs[n].level = "WARN"
                        /\ call.logs[n].msg = "Failed to decrypt password for endpoint"
                        /\ call.logs[n].id = call.id
            /\ (IsSome(stored) /\ ~undecryptable) =>
                  /\ IsSome(call.ret)
                  /\ IsUtf8(Unwrap(call.ret))
                  /\ call.logs = <<>>

\* C1 witness: get_endpoint_password was called on a row whose payload was
\* sealed under a foreign key, returned None and logged.
C1_Witness ==
    /\ IsSome(revealed)
    /\ IsSome(endpoints[Unwrap(revealed).id].password_encrypted)
    /\ Unwrap(endpoints[Unwrap(revealed).id].password_encrypted)
          \in Foreign(Unwrap(encryption_key))
    /\ TagFails(Unwrap(encryption_key),
                Unwrap(endpoints[Unwrap(revealed).id].password_encrypted))
    /\ Unwrap(revealed).ret = None
    /\ Len(Unwrap(revealed).logs) = 2

----------------------------------------------------------------------------
(* Properties of LegacyMigrator, checked under SpecMigration *)

\* The password a legacy row's fallback holds: None when the column is
\* empty, is not base64 or does not decode to text
FallbackPassword(row) ==
    IF /\ IsSome(row.password_fallback)
       /\ b64_decode(Unwrap(row.password_fallback)).ok
       /\ IsUtf8(b64_decode(Unwrap(row.password_fallback)).val[1])
    THEN Some(b64_decode(Unwrap(row.password_fallback)).val[1])
    ELSE None

\* C7: once Database::new has migrated the table and loaded the key, every
\* row that had a base64 fallback holds a payload that decrypts under the
\* key to the password the fallback encoded ("cGFzczEyMw==" gives "pass123").
C7_FallbackSurvives ==
    IsSome(encryption_key) =>
        \A id \in 1 .. Len(legacyRows) :
            IsSome(FallbackPassword(legacyRows[id])) =>
                /\ IsSome(endpoints[id].password_encrypted)
                /\ decrypt_password(Unwrap(encryption_key),
                                    Unwrap(endpoints[id].password_encrypted))
                      = Ok(Unwrap(FallbackPassword(legacyRows[id])))

----------------------------------------------------------------------------
(* Properties of VersionGate, checked under SpecClient *)

\* The url a request for a path goes to
UrlOf(path) == <<104, 116, 116, 112, 58, 47, 47, 101, 115>> \o path

\* (major, minor) lexicographically below (7, 8)
Below78(v) == v.major < 7 \/ (v.major = 7 /\ v.minor < 8)

\* A call went through: it sent exactly one request, to the path, and
\* returned what the answer to that request gave
WentThrough(call, method, path) ==
    /\ Len(call.requests) = 1
    /\ call.requests[1].method = method
    /\ call.requests[1].url = UrlOf(path)
    /\ call.ret = handle_response(call.response, method)

\* C8: a call of search_sql, get_index_templates or get_component_templates
\* on a client whose version is None goes through on the newer path
\* ("/_sql", "/_index_template", "/_component_template") and is not refused.
C8_NoVersionProceeds ==
    (IsSome(apiCall) /\ Unwrap(apiCall).version = None) =>
        LET call == Unwrap(apiCall)
        IN  /\ call.op = "search_sql" => WentThrough(call, "POST", SqlPath)
            /\ call.op = "get_index_templates" =>
                  WentThrough(call, "GET", IndexTemplatePath)
            /\ call.op = "get_component_templates" =>
                  WentThrough(call, "GET", ComponentTemplatePath)

\* C9: on a client with a cached version, get_component_templates is
\* refused with "Component templates require Elasticsearch 7.8 or higher",
\* sending nothing, exactly when (major, minor) is below (7, 8), and goes
\* through otherwise, whatever the patch; search_sql is refused with "SQL
\* API requires Elasticsearch 7.x or higher" exactly when major < 7.
C9_GateOnMajorMinor ==
    (IsSome(apiCall) /\ IsSome(Unwrap(apiCall).version)) =>
        LET call == Unwrap(apiCall)
            v == Unwrap(call.version)
            Refused(msg) == call.requests = <<>> /\ call.ret = Err(msg)
        IN  /\ call.op = "get_component_templates" =>
                  IF Below78(v)
                  THEN Refused("Component templates require Elasticsearch 7.8 or higher")
                  ELSE WentThrough(call, "GET", ComponentTemplatePath)
            /\ call.op = "search_sql" =>
                  IF v.major < 7
                  THEN Refused("SQL API requires Elasticsearch 7.x or higher")
                  ELSE WentThrough(call, "POST", SqlPath)

\* C9 witness: get_component_templates went through on a client that had
\* detected 8.0.1, a version whose minor is below 8.
C9_Witness ==
    /\ IsSome(apiCall)
    /\ Unwrap(apiCall).op = "get_component_templates"
    /\ Unwrap(apiCall).version = Some([major |-> 8, minor |-> 0, patch |-> 1])
    /\ Len(Unwrap(apiCall).requests) = 1
    /\ Unwrap(apiCall).ret.ok

\* C10: on a client with a cached version, get_index_templates sends exactly
\* one request, to "/_index_template" when (major, minor) is at least (7, 8)
\* and to "/_template" when it is below, and returns what the answer to that
\* request gave, never an error of its own.
C10_PathByVersion ==
    (/\ IsSome(apiCall)
     /\ Unwrap(apiCall).op = "get_index_templates"
     /\ IsSome(Unwrap(apiCall).version)) =>
        LET call == Unwrap(apiCall)
        IN  IF Below78(Unwrap(call.version))
            THEN WentThrough(call, "GET", TemplatePath)
            ELSE WentThrough(call, "GET", IndexTemplatePath)

\* C10 witness: get_index_templates asked "/_template" on a client that had
\* detected 7.7.1 and got an answer.
C10_Witness ==
    /\ IsSome(apiCall)
    /\ Unwrap(apiCall).op = "get_index_templates"
    /\ Unwrap(apiCall).version = Some([major |-> 7, minor |-> 7, patch |-> 1])
    /\ Unwrap(apiCall).requests[1].url = UrlOf(TemplatePath)
    /\ Unwrap(apiCall).ret.ok

\* A text of one or more decimal digits
IsDigits(t) == Len(t) > 0 /\ \A i \in 1 .. Len(t) : t[i] \in 48 .. 57

\* A digit text without its leading '+' and zeros
Canonical(t) == StripZeros(IF Len(t) > 0 /\ t[1] = 43 THEN Tail(t) ELSE t)

\* A text str::parse::<u32> accepts: an optional '+', decimal digits, and a
\* value of at most 4294967295
IsU32Text(t) ==
    /\ Len(t) > 0
    /\ IsDigits(IF t[1] = 43 THEN Tail(t) ELSE t)
    /\ ~AboveU32(Canonical(t))

\* The call of from_string inside a detect_version call whose root document
\* was read: its argument
ParsedNumber ==
    IF /\ IsSome(apiCall)
       /\ Unwrap(apiCall).op = "detect_version"
       /\ handle_root_response(Unwrap(apiCall).response).ok
    THEN Unwrap(apiCall).response.number
    ELSE None

\* C11 as stated: from_string succeeds exactly when the text split on '.'
\* has at least three components and the first three are numeric (decimal
\* digits).
C11_NumericComponents ==
    IsSome(ParsedNumber) =>
        LET parts == SplitDots(Unwrap(ParsedNumber))
        IN  Unwrap(apiCall).ret.ok <=>
                (/\ Len(parts) >= 3
                 /\ \A i \in 1 .. 3 : IsDigits(parts[i]))

\* C11 amended: from_string succeeds exactly when the text split on '.' has
\* at least three components and each of the first three is an unsigned
\* 32-bit decimal number (an optional '+', then digits, value at most
\* 4294967295); it then returns them as {major, minor, patch}, so that
\* writing the three numbers in decimal gives back the components.
C11_U32Components ==
    IsSome(ParsedNumber) =>
        LET parts == SplitDots(Unwrap(ParsedNumber))
            ret == Unwrap(apiCall).ret
        IN  /\ ret.ok <=> (Len(parts) >= 3 /\ \A i \in 1 .. 3 : IsU32Text(parts[i]))
            /\ ret.ok =>
                  /\ Decimal(ret.val[1].major) = Canonical(parts[1])
                  /\ Decimal(ret.val[1].minor) = Canonical(parts[2])
                  /\ Decimal(ret.val[1].patch) = Canonical(parts[3])

\* C11 witness: from_string was given "8.11.1" and returned {8, 11, 1}.
C11_Witness ==
    /\ ParsedNumber = Some(<<56, 46, 49, 49, 46, 49>>)
    /\ Unwrap(apiCall).ret = Ok([major |-> 8, minor |-> 11, patch |-> 1])

\* C12: a client starts with version None; a step of one of its methods
\* never takes the version from Some back to None, changes it only when the
\* method is detect_version and it succeeded, and leaves it as it was when
\* detect_version failed.
C12_OneWay ==
    [][/\ (apiCall' = None /\ IsSome(client')) => Unwrap(client').version = None
       /\ (IsSome(client) /\ IsSome(apiCall')) =>
            LET before == Unwrap(client).version
                after == Unwrap(client').version
                call == Unwrap(apiCall')
            IN  /\ IsSome(before) => IsSome(after)
                /\ call.op # "detect_version" => after = before
                /\ (call.op = "detect_version" /\ ~call.ret.ok) => after = before
                /\ after # before => (call.op = "detect_version" /\ call.ret.ok)]_vars

\* C12 witness: detect_version failed on a client that held a version, and
\* the client still holds it.
C12_Witness ==
    /\ IsSome(apiCall)
    /\ Unwrap(apiCall).op = "detect_version"
    /\ ~Unwrap(apiCall).ret.ok
    /\ IsSome(Unwrap(apiCall).version)
    /\ Unwrap(client).version = Unwrap(apiCall).version

\* The url of the service root
RootUrl == UrlOf(<<>>) \o <<47>>

\* C13: after a successful detect_version the client holds the version the
\* call returned; search_sql, get_index_templates and get_component_templates
\* send at most one request, never one to the service root, and on a client
\* holding {8, 11, 1} get_component_templates goes through.
C13_CachedNotRefetched ==
    IsSome(apiCall) =>
        LET call == Unwrap(apiCall)
        IN  /\ (call.op = "detect_version" /\ call.ret.ok) =>
                  Unwrap(client).version = Some(call.ret.val[1])
            /\ call.op \in {"search_sql", "get_index_templates",
                            "get_component_templates"} =>
                  /\ Len(call.requests) <= 1
                  /\ \A n \in 1 .. Len(call.requests) :
                        call.requests[n].url # RootUrl
                  /\ Unwrap(client).version = call.version
            /\ (/\ call.op = "get_component_templates"
                /\ call.version = Some([major |-> 8, minor |-> 11, patch |-> 1])) =>
                  WentThrough(call, "GET", ComponentTemplatePath)

\* C13 witness: on a client that had detected 8.11.1, get_component_templates
\* sent its one request to "/_component_template" and got an answer.
C13_Witness ==
    /\ IsSome(apiCall)
    /\ Unwrap(apiCall).op = "get_component_templates"
    /\ Unwrap(apiCall).version = Some([major |-> 8, minor |-> 11, patch |-> 1])
    /\ Unwrap(client).version = Unwrap(apiCall).version
    /\ Len(Unwrap(apiCall).requests) = 1
    /\ Unwrap(apiCall).requests[1].url = UrlOf(ComponentTemplatePath)
    /\ Unwrap(apiCall).ret.ok

\* C14 as stated: once a client holds a version, no call of its methods,
\* detect_version included, leaves it holding another.
C14_SetAtMostOnce ==
    (IsSome(apiCall) /\ IsSome(Unwrap(apiCall).version)) =>
        Unwrap(client).version = Unwrap(apiCall).version

\* C14 amended: the version of a client is written by detect_version alone,
\* and by every successful call of it: after such a call the client holds
\* the version the call returned, whatever it held before; after any other
\* call it holds what it held before.
C14_WrittenByEachDetection ==
    IsSome(apiCall) =>
        LET call == Unwrap(apiCall)
        IN  Unwrap(client).version =
                IF call.op = "detect_version" /\ call.ret.ok
                THEN Some(call.ret.val[1])
                ELSE call.version

\* C14 witness: a second detect_version succeeded on a client that held a
\* version, and the client now holds a different one.
C14_Witness ==
    /\ IsSome(apiCall)
    /\ Unwrap(apiCall).op = "detect_version"
    /\ Unwrap(apiCall).ret.ok
    /\ IsSome(Unwrap(apiCall).version)
    /\ Unwrap(client).version # Unwrap(apiCall).version

----------------------------------------------------------------------------
(* Properties of the verbs of EsClient *)

TypedVerbs == {"get", "post", "put", "delete"}

RawVerbs == {"get_raw", "post_raw", "put_raw", "delete_raw"}

\* The HTTP method a verb sends
MethodOf(op) ==
    IF op \in {"get", "get_raw"} THEN "GET"
    ELSE IF op \in {"post", "post_raw"} THEN "POST"
    ELSE IF op \in {"put", "put_raw"} THEN "PUT"
    ELSE "DELETE"

\* C15: a typed verb (get, post, put, delete) whose answer has a status
\* outside 2xx returns an error that carries the status and the body as
\* read; for a 2xx status it returns the body deserialized, or the decode
\* error when the body is not JSON of the expected shape; it returns no
\* value for a status outside 2xx.
C15_TypedVerbByStatus ==
    (IsSome(apiCall) /\ Unwrap(apiCall).op \in TypedVerbs
                     /\ Unwrap(apiCall).response.sent) =>
        LET call == Unwrap(apiCall)
            response == call.response
        IN  IF response.status \notin 200 .. 299
            THEN /\ ~call.ret.ok
                 /\ call.ret.val = <<>>
                 /\ call.ret.err = "Elasticsearch error"
                 /\ call.ret.status = response.status
                 /\ IsSome(response.text) =>
                        call.ret.body = Unwrap(response.text)
            ELSE IF IsSome(response.text) /\ response.json
                 THEN call.ret = Ok(Unwrap(response.text))
                 ELSE call.ret = Err("Failed to parse response JSON")

\* C15 witness: put was answered 300 with a body, and returned the error
\* carrying 300 and that body.
C15_Witness ==
    /\ IsSome(apiCall)
    /\ Unwrap(apiCall).op = "put"
    /\ Unwrap(apiCall).response.status = 300
    /\ ~Unwrap(apiCall).ret.ok
    /\ Unwrap(apiCall).ret = StatusError(300, "<html>")

\* C16: a raw verb (get_raw, post_raw, put_raw, delete_raw) returns the pair
\* of the status and the text of the answer for every status, 2xx or not,
\* whatever the body is; it fails only when the request is not delivered or
\* the body cannot be read.
C16_RawVerbAnyStatus ==
    (IsSome(apiCall) /\ Unwrap(apiCall).op \in RawVerbs) =>
        LET call == Unwrap(apiCall)
            response == call.response
        IN  /\ (response.sent /\ IsSome(response.text)) =>
                  call.ret = Ok(<<response.status, Unwrap(response.text)>>)
            /\ ~call.ret.ok <=> (~response.sent \/ response.text = None)
            /\ ~response.sent => call.ret = SendError(MethodOf(call.op))
            /\ (response.sent /\ response.text = None) =>
                  call.ret = Err("Failed to read response text")

\* C16 witness: delete_raw was answered 404 and returned the pair of 404 and
\* the text of the answer.
C16_Witness ==
    /\ IsSome(apiCall)
    /\ Unwrap(apiCall).op = "delete_raw"
    /\ Unwrap(apiCall).response.status = 404
    /\ Unwrap(apiCall).ret = Ok(<<404, "{error}">>)

\* The payload a row stores does not decrypt under the key
Undecryptable(key, stored) ==
    /\ IsSome(stored)
    /\ ~decrypt_password(key, Unwrap(stored)).ok

\* C17: every request a verb sends, typed or raw, carries basic auth exactly
\* when the client holds both a username and a password, and then carries
\* these two; a client a handler built from a row with a username and a
\* payload that is absent or does not decrypt sends its one request without
\* auth, and the answer decides the result as for any other client.
C17_AuthIffBoth ==
    (IsSome(apiCall) /\ IsSome(revealed)) =>
        LET call == Unwrap(apiCall)
            c == Unwrap(client)
            row == endpoints[Unwrap(revealed).id]
            key == Unwrap(encryption_key)
        IN  /\ \A i \in DOMAIN call.requests :
                 call.requests[i].auth =
                     IF IsSome(c.username) /\ IsSome(c.password)
                     THEN Some(<<Unwrap(c.username), Unwrap(c.password)>>)
                     ELSE None
            /\ (/\ IsSome(row.username)
                /\ \/ row.password_encrypted = None
                   \/ Undecryptable(key, row.password_encrypted)) =>
                  /\ c.username = row.username
                  /\ Len(call.requests) = 1
                  /\ call.requests[1].auth = None
                  /\ call.ret =
                         IF call.op \in TypedVerbs
                         THEN handle_response(call.response, MethodOf(call.op))
                         ELSE handle_raw_response(call.response, MethodOf(call.op))

\* C17 witness: the row has a username and a payload that does not decrypt;
\* get sent its request without auth and returned the body of the answer.
C17_Witness ==
    /\ IsSome(apiCall)
    /\ IsSome(revealed)
    /\ IsSome(endpoints[Unwrap(revealed).id].username)
    /\ Undecryptable(Unwrap(encryption_key),
                     endpoints[Unwrap(revealed).id].password_encrypted)
    /\ Unwrap(apiCall).op = "get"
    /\ Unwrap(apiCall).requests[1].auth = None
    /\ Unwrap(apiCall).ret.ok

\* C18: a call of a verb sends at most one request; when the request is not
\* delivered (no connection, or the timeout) or the status is outside 2xx,
\* the call returns that failure and has sent the request once.
C18_NoRetry ==
    (IsSome(apiCall) /\ Unwrap(apiCall).op \in TypedVerbs \cup RawVerbs) =>
        LET call == Unwrap(apiCall)
            response == call.response
        IN  /\ Len(call.requests) <= 1
            /\ ~response.sent =>
                  /\ call.ret = SendError(MethodOf(call.op))
                  /\ Len(call.requests) = 1
            /\ (/\ response.sent
                /\ response.status \notin 200 .. 299
                /\ call.op \in TypedVerbs) =>
                  /\ ~call.ret.ok
                  /\ call.ret.status = response.status
                  /\ Len(call.requests) = 1

\* C18 witness: get was not delivered, sent one request and returned the
\* send failure.
C18_Witness ==
    /\ IsSome(apiCall)
    /\ Unwrap(apiCall).op = "get"
    /\ ~Unwrap(apiCall).response.sent
    /\ Len(Unwrap(apiCall).requests) = 1
    /\ Unwrap(apiCall).ret = Err("Failed to send GET request")

----------------------------------------------------------------------------
(* Properties of run_migrations, checked under SpecMigration *)

\* The table a start found needs no migration: it has neither legacy column
\* and has password_encrypted
AlreadyMigrated(cols) ==
    /\ "password_keychain_id" \notin cols
    /\ "password_fallback" \notin cols
    /\ "password_encrypted" \in cols

Unresolved(row) ==
    /\ IsSome(row.password_keychain_id) \/ IsSome(row.password_fallback)
    /\ FallbackPassword(row) = None

\* C20 as stated: when a start migrates a table, each legacy row whose
\* password no source gives ends with an empty password and a warning in the
\* log that names it, the migration does not stop the start, and every other
\* row that had a fallback holds a payload that decrypts to its password.
C20_UnresolvedWarned ==
    (IsSome(startup) /\ Unwrap(startup).ran) =>
        LET s == Unwrap(startup)
        IN  \A id \in 1 .. Len(s.rows) :
                Unresolved(s.rows[id]) =>
                    /\ \E i \in DOMAIN s.logs :
                          s.logs[i].level = "WARN" /\ s.logs[i].id = id
                    /\ \A other \in 1 .. Len(s.rows) :
                          (/\ IsSome(FallbackPassword(s.rows[other]))
                           /\ IsSome(encryption_key)) =>
                              /\ IsSome(endpoints[other].password_encrypted)
                              /\ decrypt_password(Unwrap(encryption_key),
                                     Unwrap(endpoints[other].password_encrypted))
                                    = Ok(Unwrap(FallbackPassword(s.rows[other])))

----------------------------------------------------------------------------
(* Properties of init_directories and main, checked under SpecHost *)

\* The entries of a directory that may not exist
Entries(dir) == IF IsSome(dir) THEN Unwrap(dir) ELSE EmptyDir

\* Every entry of the directory old is in the directory new as it was
KeptIn(old, new) ==
    \A n \in DOMAIN old : n \in DOMAIN new /\ new[n] = old[n]

\* C21: a call of init_directories that finds no legacy directory relocates
\* nothing: there is still no legacy directory, the application directory
\* holds what it held, with at most a new db.key, and the call fails only
\* when load_or_create_key fails.
C21_NothingToMigrate ==
    (IsSome(boot.dirs) /\ Unwrap(boot.dirs).before.legacy = None) =>
        LET call == Unwrap(boot.dirs)
        IN  /\ ~call.relocated
            /\ call.after.legacy = None
            /\ KeptIn(Entries(call.before.app), Entries(call.after.app))
            /\ DOMAIN Entries(call.after.app)
                  \subseteq DOMAIN Entries(call.before.app) \cup {"db.key"}
            /\ ~call.ret.ok =>
                  /\ Len(keyCalls) >= 1
                  /\ call.ret = keyCalls[Len(keyCalls)].ret

\* C21 witness: the first start moved the legacy key and removed the legacy
\* directory; the second start found none, and succeeded.
C21_Witness ==
    /\ boot.starts = 2
    /\ IsSome(boot.dirs)
    /\ Unwrap(boot.dirs).before.legacy = None
    /\ Unwrap(boot.dirs).ret.ok
    /\ keyFile = Some(hex_encode(Entropy(1, KeyLen)))

\* An entry of the legacy directory is in the directory new: a file with its
\* content, a directory as a directory that holds each of its files
PresentIn(old, n, new) ==
    /\ n \in DOMAIN new
    /\ IF old[n].kind = "file" THEN new[n] = old[n]
       ELSE new[n].kind = "dir" /\ KeptIn(old[n].tree, new[n].tree)

\* C22 as stated: after a call of init_directories that relocated a legacy
\* directory with entries and returned success, every file and directory of
\* it is in the application directory, and the legacy directory is gone.
C22_AllMovedRootRemoved ==
    (/\ IsSome(boot.dirs)
     /\ Unwrap(boot.dirs).relocated
     /\ Unwrap(boot.dirs).ret.ok
     /\ DOMAIN Entries(Unwrap(boot.dirs).before.legacy) # {}) =>
        LET call == Unwrap(boot.dirs)
        IN  /\ \A n \in DOMAIN Unwrap(call.before.legacy) :
                  PresentIn(Unwrap(call.before.legacy), n, Unwrap(call.after.app))
            /\ call.after.legacy = None

\* C22 amended: after such a call every file of the legacy directory is in
\* the application directory with its content, and every directory of it is
\* there with its files, but for an empty directory whose name a file of the
\* application directory has; the legacy directory is gone when nothing is
\* left in it, and what is left in it (entries whose deletion failed after
\* they were copied) is what it held before.
C22_AllMovedRootRemovedWhenEmpty ==
    (/\ IsSome(boot.dirs)
     /\ Unwrap(boot.dirs).relocated
     /\ Unwrap(boot.dirs).ret.ok) =>
        LET call == Unwrap(boot.dirs)
            old == Unwrap(call.before.legacy)
            new == Unwrap(call.after.app)
        IN  /\ \A n \in DOMAIN old :
                  \/ PresentIn(old, n, new)
                  \/ /\ old[n].kind = "dir" /\ DOMAIN old[n].tree = {}
                     /\ n \in DOMAIN new /\ new[n].kind = "file"
            /\ \/ call.after.legacy = None
               \/ /\ DOMAIN Unwrap(call.after.legacy) # {}
                  /\ \A n \in DOMAIN Unwrap(call.after.legacy) :
                        /\ n \in DOMAIN old
                        /\ IF old[n].kind = "file"
                           THEN Unwrap(call.after.legacy)[n] = old[n]
                           ELSE /\ Unwrap(call.after.legacy)[n].kind = "dir"
                                /\ KeptIn(Unwrap(call.after.legacy)[n].tree,
                                          old[n].tree)

\* C22 witness: the key, the database and the logs of the legacy directory
\* are in the application directory, the call succeeded, and the legacy
\* directory is still there with the entries that could not be deleted.
C22_Witness ==
    /\ IsSome(boot.dirs)
    /\ Unwrap(boot.dirs).relocated
    /\ Unwrap(boot.dirs).ret.ok
    /\ Cardinality(DOMAIN Entries(Unwrap(boot.dirs).before.legacy)) = 3
    /\ IsSome(Unwrap(boot.dirs).after.legacy)
    /\ \A n \in DOMAIN Unwrap(Unwrap(boot.dirs).before.legacy) :
          PresentIn(Unwrap(Unwrap(boot.dirs).before.legacy), n,
                    Unwrap(Unwrap(boot.dirs).after.app))

\* C23 as stated: a call of load_or_create_key that creates the key file
\* returns the key it generated, the one the file holds, whether or not the
\* mode of the file could be set to 0600.
C23_PermissionBestEffort ==
    \A i \in 1 .. Len(keyCalls) :
        keyCalls[i].wrote =>
            /\ keyCalls[i].ret.ok
            /\ keyCalls[i].after = Some(hex_encode(keyCalls[i].ret.val[1]))

\* C24: main runs init_directories (the relocation, then a first
\* load_or_create_key), then Database::new (the migrations), then binds the
\* listener, then serves: the migrations run only after init_directories
\* succeeded and a key was loaded or created; when the legacy directory
\* held a key file and the relocation succeeded, no key is generated and the
\* key loaded is the legacy one; a request is accepted only after
\* Database::new succeeded; and when a load of the key failed the process is
\* aborted and has accepted no request.
C24_StartupOrder ==
    /\ IsSome(startup) =>
          /\ IsSome(boot.dirs)
          /\ Unwrap(boot.dirs).ret.ok
          /\ Len(keyCalls) >= 1
          /\ keyCalls[1].ret.ok
    /\ (/\ IsSome(boot.dirs)
        /\ Unwrap(boot.dirs).relocated
        /\ Unwrap(boot.dirs).ret.ok
        /\ "db.key" \in DOMAIN Entries(Unwrap(boot.dirs).before.legacy)) =>
          \A i \in 1 .. Len(keyCalls) :
              /\ ~keyCalls[i].wrote
              /\ keyCalls[i].before =
                     Some(Unwrap(Unwrap(boot.dirs).before.legacy)["db.key"].data)
    /\ boot.pc \in {"bind", "serve"} =>
          /\ IsSome(startup)
          /\ Unwrap(startup).ok
          /\ IsSome(encryption_key)
    /\ boot.served > 0 => boot.pc = "serve"
    /\ (\E i \in 1 .. Len(keyCalls) : ~keyCalls[i].ret.ok) =>
          /\ boot.pc = "aborted"
          /\ boot.served = 0

\* C24 witness: the legacy directory held the key, the start relocated it,
\* loaded it, migrated, bound the listener and has served a request under
\* the legacy key.
C24_Witness ==
    /\ boot.pc = "serve"
    /\ boot.served = 1
    /\ IsSome(boot.dirs)
    /\ Unwrap(boot.dirs).relocated
    /\ "db.key" \in DOMAIN Entries(Unwrap(boot.dirs).before.legacy)
    /\ encryption_key = Some(Entropy(1, KeyLen))

\* C27 as stated: a call of init_directories that relocates a legacy
\* directory leaves every file the application directory already held as it
\* was, at the first start and at a later one.
C27_ExistingFilesKept ==
    (IsSome(boot.dirs) /\ Unwrap(boot.dirs).relocated) =>
        LET old == Entries(Unwrap(boot.dirs).before.app)
            new == Entries(Unwrap(boot.dirs).after.app)
        IN  \A n \in DOMAIN old :
                /\ n \in DOMAIN new
                /\ IF old[n].kind = "file" THEN new[n] = old[n]
                   ELSE new[n].kind = "dir" /\ KeptIn(old[n].tree, new[n].tree)

----------------------------------------------------------------------------
(* Properties of create_endpoint and update_endpoint, checked under        *)
(* SpecEndpoints                                                           *)

\* The columns of a row that hold what the password handling writes
PasswordColumnsOf(row) ==
    {row.password_encrypted, row.password_fallback, row.password_keychain_id}

----------------------------------------------------------------------------
(* Properties of save_console_history, checked under SpecConsole           *)

\* C28: the console history never holds two records with the same
\* endpoint_id, method, path and body, a NULL body matching a NULL body,
\* also when two calls of save_console_history with the same query run
\* concurrently.
C28_OneRecordPerQuery ==
    \A a, b \in 1 .. Len(history) :
        SameQuery(history[a], history[b]) => a = b

----------------------------------------------------------------------------
(* Properties of concurrent load_or_create_key calls, checked under        *)
(* SpecRace                                                                *)

AllReturned == \A p \in DOMAIN procs : procs[p].stage \in {"serving", "aborted"}

Writers == {p \in DOMAIN procs : procs[p].wrote > 0}

LastWriter == CHOOSE p \in Writers : \A q \in Writers : procs[q].wrote <= procs[p].wrote

\* C26 as stated: when processes started without a key file have all
\* returned from load_or_create_key, every one of them succeeded and holds
\* in memory the key the key file stores.
C26_AllHoldPersistedKey ==
    AllReturned =>
        \A p \in DOMAIN procs :
            /\ procs[p].stage = "serving"
            /\ Some(hex_encode(Unwrap(procs[p].held))) = keyFile

\* C26 amended: when processes started without a key file have all
\* returned, the key file holds the key of the process that wrote last; a
\* process that succeeded holds a key that one of them generated and wrote,
\* which is the stored key when only one process wrote; a process that
\* failed read the file between another's create and write, or could not
\* set the permissions.
C26_LastWriterWins ==
    AllReturned =>
        /\ Writers # {}
        /\ keyFile = Some(hex_encode(KeyOf(LastWriter)))
        /\ \A p \in DOMAIN procs :
              /\ procs[p].stage = "serving" =>
                    /\ procs[p].held \in {Some(KeyOf(q)) : q \in Writers}
                    /\ Cardinality(Writers) = 1 =>
                          Some(hex_encode(Unwrap(procs[p].held))) = keyFile
              /\ procs[p].stage = "aborted" =>
                    procs[p].err \in {"Encryption key must be 32 bytes",
                                      "Failed to set encryption key permissions"}

\* C26 witness: two processes found no key file, both wrote one and both
\* serve, and the first holds a key that is not the stored one.
C26_Witness ==
    /\ AllReturned
    /\ \A p \in DOMAIN procs : procs[p].stage = "serving"
    /\ Cardinality(Writers) >= 2
    /\ Some(hex_encode(Unwrap(procs[1].held))) # keyFile

----------------------------------------------------------------------------
(* Properties of the active endpoint, checked under SpecSession            *)

----------------------------------------------------------------------------
(* Properties of matches_pattern, checked under SpecShards                 *)

\* C30: matches_pattern(index_name, pattern) is true exactly when the whole
\* index name matches the pattern with '*' standing for any sequence of
\* characters and every other character for itself.
C30_WildcardSemantics ==
    IsSome(matchCall) =>
        (Unwrap(matchCall).matched
            <=> Wildcard(Unwrap(matchCall).index_name, Unwrap(matchCall).pattern))

====
